---- MODULE Spec2Model ----
(***************************************************************************)
(* PAA miner: the single-run scraper (runSingle), the consensus           *)
(* aggregator (runConsensus) and the text normalizer they share, and the  *)
(* tracker's diff pass (checkKeyword, diffPAALists) with its question     *)
(* hash.                                                                   *)
(*                                                                         *)
(* Text is a sequence of one-character strings.  The rendered page is the *)
(* environment: every awaited browser call may resolve or reject, and a   *)
(* click may inject further accordion items into the container.  For the  *)
(* tracker the environment is the list SerpAPI returns and the storage,   *)
(* whose every awaited write may reject; a rejected pass is the last one  *)
(* followed.  The cycle driver (runTrackingCycle), the keyword routes with *)
(* their tier limits, the POST handler racing a cycle for a new keyword,  *)
(* and sendChangeNotifications each have a specification of their own.    *)
(***************************************************************************)
EXTENDS Integers, Sequences, FiniteSets, TLC

\* ------------------------------------------------------------------ bounds

\* Largest params.depth a run is started with.
MaxDepth == 2
\* Largest MAX_NODES a run is started with.
MaxNodesCfg == 3
\* Largest number of accordion items the container holds when it is located.
MaxInitialDom == 2
\* MAX_RUNTIME_MS of a run, in units of the 5000 ms that
\* waitForChildrenInjected waits when no child shows up.
MaxRuntime == 1
\* Largest params.k a consensus request is made with.
MaxKParam == 4
\* Largest number of items in the result of one run handed to the merge.
MaxRunItems == 2
\* Largest depth of an item in the result of one run handed to the merge.
MaxItemDepth == 3

\* --------------------------------------------------------------- text

\* Characters are one-character strings; a character outside ASCII is named
\* by its code point: U+0130 (capital I with dot above), U+211A (double-struck
\* capital Q), U+00B2 (superscript two), U+0307 (combining dot above), U+00A0
\* (no-break space), U+201E (double low-9 quotation mark).
UpperChars == {"W", "H", "Q", "I"}
LowerChars == {"w", "h", "y", "o", "q", "i"}
OtherLetters == {"U+0130", "U+211A"}
DigitChars == {"2", "U+00B2"}
SpaceChars == {" ", "\t", "U+00A0"}
QuoteChars == {"'", "\"", "U+201E"}

\* The concatenation of a sequence of strings.
RECURSIVE Concat(_)
Concat(ss) == IF ss = <<>> THEN <<>> ELSE Head(ss) \o Concat(Tail(ss))

\* The full (canonical and compatibility) decomposition of a character.
Decompose(c) ==
  CASE c = "U+0130" -> <<"I", "U+0307">>
    [] c = "U+211A" -> <<"Q">>
    [] c = "U+00B2" -> <<"2">>
    [] c = "U+00A0" -> <<" ">>
    [] OTHER -> <<c>>

\* Canonical composition: of the characters used here only I followed by the
\* combining dot has a composite.
RECURSIVE Compose(_)
Compose(s) ==
  IF s = <<>> THEN <<>>
  ELSE IF Len(s) > 1 /\ s[1] = "I" /\ s[2] = "U+0307"
       THEN <<"U+0130">> \o Compose(SubSeq(s, 3, Len(s)))
       ELSE <<Head(s)>> \o Compose(Tail(s))

\* String.prototype.normalize('NFKC')
NFKC(s) == Compose(Concat([i \in 1..Len(s) |-> Decompose(s[i])]))

\* String.prototype.toLowerCase, per character.
toLowerCase(c) ==
  CASE c = "W" -> "w"
    [] c = "H" -> "h"
    [] c = "Q" -> "q"
    [] c = "I" -> "i"
    [] OTHER -> c

\* String.prototype.toLowerCase: U+0130 lowercases to i and the combining dot.
LowerCase(s) ==
  Concat([i \in 1..Len(s) |->
            IF s[i] = "U+0130" THEN <<"i", "U+0307">> ELSE <<toLowerCase(s[i])>>])

\* \p{L}: the letters of the alphabet used here.
IsLetter(c) == c \in UpperChars \cup LowerChars \cup OtherLetters

\* \p{N}
IsNumber(c) == c \in DigitChars

\* \s
IsSpace(c) == c \in SpaceChars

\* .replace(/["«»„'...]/g, '"')
FoldQuote(c) == IF c \in QuoteChars THEN "\"" ELSE c

\* .replace(/[^\p{L}\p{N}\s?]/gu, ' ')
StripPunct(c) == IF IsLetter(c) \/ IsNumber(c) \/ IsSpace(c) \/ c = "?" THEN c ELSE " "

\* .replace(/\s+/g, ' '): every maximal run of whitespace becomes one space.
RECURSIVE CollapseSpaces(_)
CollapseSpaces(s) ==
  IF s = <<>> THEN <<>>
  ELSE IF IsSpace(Head(s))
       THEN IF Len(s) > 1 /\ IsSpace(s[2])
            THEN CollapseSpaces(Tail(s))
            ELSE <<" ">> \o CollapseSpaces(Tail(s))
       ELSE <<Head(s)>> \o CollapseSpaces(Tail(s))

RECURSIVE TrimLeft(_)
TrimLeft(s) ==
  IF s # <<>> /\ IsSpace(Head(s)) THEN TrimLeft(Tail(s)) ELSE s

RECURSIVE TrimRight(_)
TrimRight(s) ==
  IF s # <<>> /\ IsSpace(s[Len(s)]) THEN TrimRight(SubSeq(s, 1, Len(s) - 1)) ELSE s

\* String.prototype.trim
trim(s) == TrimRight(TrimLeft(s))

\* The replacements and the trim that follow the case conversion.
Replacements(t) ==
  trim(CollapseSpaces([i \in 1..Len(t) |-> StripPunct(FoldQuote(t[i]))]))

\* normalize with the case conversion made before the NFKC normalization.
normalize_LowerBeforeNFKC(s) == Replacements(NFKC(LowerCase(s)))

\* normalize
normalize(s) == Replacements(LowerCase(NFKC(s)))

\* The question texts a page can show.  "Why?" and "why?!" share a normalized
\* form; "oh" is too short to be kept by getAccordionItems.
RawTexts ==
  << <<"W", "h", "y", "?">>,
     <<"w", "h", "y", "?", "!">>,
     <<"H", "o", "w", "?">>,
     <<"W", "h", "o", "?">>,
     <<"o", "h">> >>

Questions == 1..Len(RawTexts)

\* An optional parent key: absent, or one normalized text.
NoParent == <<>>
SomeParent(n) == <<n>>

\* ------------------------------------------------------------ runSingle

VARIABLES
  pc,          \* position in runSingle
  browser,     \* "null" | "open" | "closed": the Browser handle and its state
  closeCalls,  \* number of browser.close() invocations so far
  depthParam,  \* params.depth
  maxNodes,    \* MAX_NODES
  dom,         \* the page: texts of the [aria-expanded] controls of the container
  located,     \* outcome of findPAAContainer: "none" | "found" | "null"
  items,       \* PAAItem[]
  seen,        \* Set<string> of normalized texts
  queue,       \* QNode[]
  node,        \* the queue entry being processed
  acc,         \* the getAccordionItems snapshot being iterated
  accIdx,      \* index of the next entry of acc
  evidence,    \* evidence of the result: fields present, number of crops
  crops,       \* length of the crops array
  elapsed,     \* Date.now() - started, in the unit of MaxRuntime
  lastExpand,  \* the latest expansion attempt: what happened, whether it enqueued
  expanded,    \* an expansion has been attempted (a page.$ lookup for a control)
  result,      \* "none" | "returned" | "threw"
  error        \* what was thrown: "none" | "launch" | "page" | "evidence" | "close"

VARIABLES
  cpc,         \* position in runConsensus: "runs" | "running" | "launched" | "done"
               \* ("idle": not called)
  kParam,      \* params.k as requested
  strict,      \* params.strict
  started,     \* number of runSingle invocations made so far
  sessions,    \* the Browser each invocation launched: "open" | "closed"
  runs,        \* PAARunResult[]: items, serpHash and evidence of each completed run
  results,     \* ConsensusPAAResult[]: the results field of the returned value
  returnedRuns,\* the runs field of the returned value
  cresult,     \* "none" | "returned" | "threw"
  cerror       \* the error a run rejected with: "none" | "launch" | "page" | "close"

runVars == << pc, browser, closeCalls, depthParam, maxNodes, dom, located, items,
              seen, queue, node, acc, accIdx, evidence, crops, elapsed,
              lastExpand, expanded, result, error >>

consVars == << cpc, kParam, strict, started, sessions, runs, results, returnedRuns,
              cresult, cerror >>

VARIABLES
  tpc,               \* position in checkKeyword, the step whose await is next or rejected:
                     \* "idle" | "fetch" | "snapshot" | "added" | "removed" | "retained" |
                     \* "moved" | "stamp" | "done" ("none": not called)
  tsub,              \* which write of a loop body is next: 1 | 2
  ti,                \* index of the loop entry being processed
  cycle,             \* number of diff passes begun for the tracked keyword
  currentPAA,        \* the list fetchPAAFromSerp resolved to
  previousQuestions, \* the rows the SELECT of step 2 returned
  diff,              \* the DiffResult of diffPAALists
  questions,         \* table paa_questions: the rows of the keyword, in rowid order
  changes,           \* table paa_changes: the rows inserted by the latest pass
  olderChanges,      \* table paa_changes: number of rows of earlier passes
  snapshots,         \* table paa_snapshots: questions_json of the rows of the latest pass
  olderSnapshots,    \* table paa_snapshots: questions_json of the rows of earlier passes
  lastChecked,       \* tracked_keywords.last_checked_at: 0 (NULL) or the pass that set it
  tresult            \* outcome of the latest pass: "none" | "returned" | "threw"

trackVars == << tpc, tsub, ti, cycle, currentPAA, previousQuestions, diff, questions,
                changes, olderChanges, snapshots, olderSnapshots, lastChecked, tresult >>

VARIABLES
  rpc,           \* position in runTrackingCycle: "select" | "loop" | "check" | "done"
                 \* ("none": not called)
  dueKeywords,   \* dueKeywords.results: ids of the keywords the SELECT returned
  kwi,           \* index of the entry of dueKeywords the for loop is at
  passed,        \* ids of the keywords checkKeyword has been called for, in call order
  caught,        \* ids of the keywords whose checkKeyword rejected into the catch
  totalChanges,  \* let totalChanges
  cycleResult    \* outcome of runTrackingCycle: status "none" | "returned" | "threw",
                 \* and the value resolved to

cycleVars == << rpc, dueKeywords, kwi, passed, caught, totalChanges, cycleResult >>

VARIABLES
  npc,    \* calls of normalize made: "start" | "once" | "twice" ("none": not called)
  ntext,   \* the string normalize is called with
  once,   \* normalize(ntext)
  twice   \* normalize(normalize(ntext))

normVars == << npc, ntext, once, twice >>

VARIABLES
  tier,     \* auth.tier of the user: "free" | "pro" | "agency"
  tracked,  \* table tracked_keywords: the row each POST request inserts, "none"
            \* (not inserted) | "active" (is_active = 1) | "paused" | "deleted"
  posts     \* position of each POST /keywords request: "new" | "allowed" |
            \* "403" | "404" | "inserted"

limitVars == << tier, tracked, posts >>

VARIABLES
  spc,                \* position in sendChangeNotifications: "select" | "settings" |
                      \* "email" | "webhook" | "mark" | "done" ("none": not called)
  calls,              \* number of invocations of sendChangeNotifications so far
  owner,              \* user_id joined to each row of paa_changes
  notified,           \* paa_changes.notified of each row
  userSettings,       \* table user_settings: the row of each user, if any
  unnotifiedChanges,  \* ids of the rows the SELECT of the invocation returned
  changesByUser,      \* the keys of the Map, in insertion order
  sui,                \* index of the Map entry the for loop is at
  failed,             \* the channels whose delivery of a row was rejected
  notificationsSent,  \* let notificationsSent
  sresult             \* outcome of the invocation: "none" | "returned" | "threw"

notifyVars == << spc, calls, owner, notified, userSettings, unnotifiedChanges,
                 changesByUser, sui, failed, notificationsSent, sresult >>

VARIABLES
  ppc,               \* position in the POST /keywords handler: "insert" | "fetch" |
                     \* "questions" | "stamp" | "done" | "500" ("none": no request)
  initialQuestions,  \* const questions: the list the initial fetch resolved to
  pidx,              \* let i of the loop storing the initial questions
  selected           \* the keyword is in the dueKeywords of a running cycle

postVars == << ppc, initialQuestions, pidx, selected >>

otherVars == << normVars, limitVars, notifyVars, postVars >>

vars == << runVars, consVars, trackVars, cycleVars, otherVars >>

NormIdle ==
  /\ npc = "none"
  /\ ntext = <<>>
  /\ once = <<>>
  /\ twice = <<>>

LimitIdle ==
  /\ tier = "free"
  /\ tracked = <<>>
  /\ posts = <<>>

NotifyIdle ==
  /\ spc = "none"
  /\ calls = 0
  /\ owner = <<>>
  /\ notified = <<>>
  /\ userSettings = <<>>
  /\ unnotifiedChanges = {}
  /\ changesByUser = <<>>
  /\ sui = 1
  /\ failed = <<>>
  /\ notificationsSent = 0
  /\ sresult = "none"

PostIdle ==
  /\ ppc = "none"
  /\ initialQuestions = <<>>
  /\ pidx = 1
  /\ selected = FALSE

OtherIdle == NormIdle /\ LimitIdle /\ NotifyIdle /\ PostIdle

CycleResult(status, checked, total) ==
  [status |-> status, checked |-> checked, changes |-> total]

CycleIdle ==
  /\ rpc = "none"
  /\ dueKeywords = <<>>
  /\ kwi = 1
  /\ passed = <<>>
  /\ caught = {}
  /\ totalChanges = 0
  /\ cycleResult = CycleResult("none", 0, 0)

NoDiff == [added |-> <<>>, removed |-> <<>>, positionChanges |-> <<>>]

TrackerIdle ==
  /\ tpc = "none"
  /\ tsub = 1
  /\ ti = 1
  /\ cycle = 0
  /\ currentPAA = <<>>
  /\ previousQuestions = <<>>
  /\ diff = NoDiff
  /\ questions = <<>>
  /\ changes = <<>>
  /\ olderChanges = 0
  /\ snapshots = <<>>
  /\ olderSnapshots = <<>>
  /\ lastChecked = 0
  /\ tresult = "none"

NoEvidence == [fields |-> {}, crops |-> 0]
NoNode == [depth |-> 0, parent |-> NoParent]
NoExpand == [outcome |-> "none", enqueued |-> FALSE]

\* Strictly increasing index sequences: the pages a run can start on.
RECURSIVE IncreasingSeqs(_, _)
IncreasingSeqs(from, len) ==
  IF len = 0 THEN {<<>>}
  ELSE UNION {{<<q>> \o t : t \in IncreasingSeqs(q + 1, len - 1)} :
                q \in {x \in Questions : x >= from}}

InitialDoms == UNION {IncreasingSeqs(1, n) : n \in 0..MaxInitialDom}

ConsensusIdle ==
  /\ cpc = "idle"
  /\ kParam = 1
  /\ strict = FALSE
  /\ started = 0
  /\ sessions = <<>>
  /\ runs = <<>>
  /\ results = <<>>
  /\ returnedRuns = <<>>
  /\ cerror = "none"
  /\ cresult = "none"

Init ==
  /\ ConsensusIdle
  /\ TrackerIdle
  /\ CycleIdle
  /\ OtherIdle
  /\ pc = "launch"
  /\ browser = "null"
  /\ closeCalls = 0
  /\ depthParam \in 0..MaxDepth
  /\ maxNodes \in 1..MaxNodesCfg
  /\ dom \in InitialDoms
  /\ located = "none"
  /\ items = <<>>
  /\ seen = {}
  /\ queue = <<>>
  /\ node = NoNode
  /\ acc = <<>>
  /\ accIdx = 1
  /\ evidence = NoEvidence
  /\ crops = 0
  /\ elapsed = 0
  /\ lastExpand = NoExpand
  /\ expanded = FALSE
  /\ result = "none"
  /\ error = "none"

\* A rejection inside the try block: control moves to the catch clause.
Throw(e) ==
  /\ pc' = "catch"
  /\ error' = e

\* chromium.launch
Launch ==
  /\ pc = "launch"
  /\ UNCHANGED << consVars, trackVars, cycleVars, otherVars >>
  /\ \E ok \in BOOLEAN :
       IF ok
       THEN /\ browser' = "open"
            /\ pc' = "navigate"
            /\ error' = error
       ELSE /\ browser' = browser
            /\ Throw("launch")
  /\ UNCHANGED << closeCalls, depthParam, maxNodes, dom, located, items, seen,
                  queue, node, acc, accIdx, evidence, crops, elapsed,
                  lastExpand, expanded, result >>

\* newContext, newPage, goto, the consent buttons.
Navigate ==
  /\ pc = "navigate"
  /\ UNCHANGED << consVars, trackVars, cycleVars, otherVars >>
  /\ \E ok \in BOOLEAN :
       IF ok
       THEN /\ pc' = "locate"
            /\ error' = error
       ELSE Throw("page")
  /\ UNCHANGED << browser, closeCalls, depthParam, maxNodes, dom, located,
                  items, seen, queue, node, acc, accIdx, evidence, crops,
                  elapsed, lastExpand, expanded, result >>

\* hashSERP (never rejects) and findPAAContainer.
Locate ==
  /\ pc = "locate"
  /\ UNCHANGED << consVars, trackVars, cycleVars, otherVars >>
  /\ \E outcome \in {"found", "null", "throws"} :
       CASE outcome = "found" ->
              /\ located' = "found"
              /\ pc' = "initialEvidence"
              /\ error' = error
         [] outcome = "null" ->
              /\ located' = "null"
              /\ pc' = "notFound"
              /\ error' = error
         [] OTHER ->
              /\ located' = located
              /\ Throw("page")
  /\ UNCHANGED << browser, closeCalls, depthParam, maxNodes, dom, items, seen,
                  queue, node, acc, accIdx, evidence, crops, elapsed,
                  lastExpand, expanded, result >>

\* if (!paa): full-page screenshot, browser.close(), return.
ContainerNotFound ==
  /\ pc = "notFound"
  /\ UNCHANGED << consVars, trackVars, cycleVars, otherVars >>
  /\ \E shotOk \in BOOLEAN, closeOk \in BOOLEAN :
       IF ~shotOk
       THEN /\ Throw("evidence")
            /\ UNCHANGED << browser, closeCalls, evidence, result >>
       ELSE /\ closeCalls' = closeCalls + 1
            /\ IF closeOk
               THEN /\ browser' = "closed"
                    /\ evidence' = [fields |-> {"fullScreenshotB64"}, crops |-> 0]
                    /\ result' = "returned"
                    /\ pc' = "done"
                    /\ error' = error
               ELSE /\ Throw("close")
                    /\ UNCHANGED << browser, evidence, result >>
  /\ UNCHANGED << depthParam, maxNodes, dom, located, items, seen, queue, node,
                  acc, accIdx, crops, elapsed, lastExpand, expanded >>

\* paa.evaluate(outerHTML), paa.screenshot(), crops.push; queue = [{depth: 0}].
InitialEvidence ==
  /\ pc = "initialEvidence"
  /\ UNCHANGED << consVars, trackVars, cycleVars, otherVars >>
  /\ \E htmlOk \in BOOLEAN, cropOk \in BOOLEAN :
       IF htmlOk /\ cropOk
       THEN /\ crops' = crops + 1
            /\ queue' = << [depth |-> 0, parent |-> NoParent] >>
            /\ pc' = "loop"
            /\ error' = error
       ELSE /\ Throw("evidence")
            /\ UNCHANGED << crops, queue >>
  /\ UNCHANGED << browser, closeCalls, depthParam, maxNodes, dom, located,
                  items, seen, node, acc, accIdx, evidence, elapsed,
                  lastExpand, expanded, result >>

\* getAccordionItems: the trimmed text and index of every control, those of
\* two characters or fewer dropped.
RECURSIVE AccordionFrom(_, _)
AccordionFrom(d, i) ==
  IF i > Len(d) THEN <<>>
  ELSE LET text == trim(RawTexts[d[i]])
       IN (IF Len(text) > 2
           THEN << [question |-> text, orderIdx |-> i - 1] >>
           ELSE <<>>) \o AccordionFrom(d, i + 1)

getAccordionItems(d) == AccordionFrom(d, 1)

\* while (queue.length): the time check, queue.shift(), getAccordionItems.
\* Time may have run out anywhere before the check.
LoopHead ==
  /\ pc = "loop"
  /\ UNCHANGED << consVars, trackVars, cycleVars, otherVars >>
  /\ IF queue = <<>>
     THEN /\ pc' = "final"
          /\ UNCHANGED << queue, node, acc, accIdx, elapsed, error >>
     ELSE \E late \in BOOLEAN, accOk \in BOOLEAN :
            IF elapsed > MaxRuntime \/ late
            THEN /\ elapsed' = MaxRuntime + 1
                 /\ pc' = "final"
                 /\ UNCHANGED << queue, node, acc, accIdx, error >>
            ELSE /\ node' = Head(queue)
                 /\ queue' = Tail(queue)
                 /\ elapsed' = elapsed
                 /\ IF accOk
                    THEN /\ acc' = getAccordionItems(dom)
                         /\ accIdx' = 1
                         /\ pc' = "for"
                         /\ error' = error
                    ELSE /\ Throw("page")
                         /\ UNCHANGED << acc, accIdx >>
  /\ UNCHANGED << browser, closeCalls, depthParam, maxNodes, dom, located,
                  items, seen, evidence, crops, lastExpand, expanded, result >>

\* The guard without the depth test.
ShouldExpand_NoDepthTest(n, d, len, mx) == len < mx

\* The guard with the depth test off by one.
ShouldExpand_Inclusive(n, d, len, mx) == n.depth <= d /\ len < mx

\* if (node.depth < params.depth && items.length < maxNodes)
ShouldExpand(n, d, len, mx) == n.depth < d /\ len < mx

\* What a click can add to the container: nothing, or one text not yet shown.
Injections(d) ==
  {d} \cup {Append(d, q) : q \in {x \in Questions : \A i \in 1..Len(d) : d[i] # x}}

\* waitForChildrenInjected: it returns early only when it sees the number of
\* controls grow between two polls; otherwise it waits its whole timeout.
WaitCosts(grew) == IF grew THEN {0, 1} ELSE {1}

Later(t, cost) == IF t + cost > MaxRuntime THEN MaxRuntime + 1 ELSE t + cost

\* The expansion with the child entry put at the head of the queue.
Expand_Unshift(norm) ==
  \E outcome \in {"notFound", "clickThrew", "clicked"}, cropOk \in BOOLEAN :
    /\ expanded' = TRUE
    /\ IF outcome = "notFound"
       THEN /\ lastExpand' = [outcome |-> outcome, enqueued |-> FALSE]
            /\ accIdx' = accIdx + 1
            /\ UNCHANGED << dom, elapsed, crops, queue, pc, error >>
       ELSE /\ dom' \in (IF outcome = "clicked" THEN Injections(dom) ELSE {dom})
            /\ \E cost \in WaitCosts(Len(dom') > Len(dom)) :
                 elapsed' = Later(elapsed, cost)
            /\ lastExpand' = [outcome |-> outcome, enqueued |-> cropOk]
            /\ IF cropOk
               THEN /\ crops' = crops + 1
                    /\ queue' = << [depth |-> node.depth + 1,
                                  parent |-> SomeParent(norm)] >> \o queue
                    /\ accIdx' = accIdx + 1
                    /\ UNCHANGED << pc, error >>
               ELSE /\ Throw("evidence")
                    /\ UNCHANGED << crops, queue, accIdx >>

\* The expansion of one control: page.$ finds no control (or rejects and is
\* caught), or the click rejects and is caught, or the click is issued; then
\* waitForChildrenInjected, the crop, queue.push.
Expand(norm) ==
  \E outcome \in {"notFound", "clickThrew", "clicked"}, cropOk \in BOOLEAN :
    /\ expanded' = TRUE
    /\ IF outcome = "notFound"
       THEN /\ lastExpand' = [outcome |-> outcome, enqueued |-> FALSE]
            /\ accIdx' = accIdx + 1
            /\ UNCHANGED << dom, elapsed, crops, queue, pc, error >>
       ELSE /\ dom' \in (IF outcome = "clicked" THEN Injections(dom) ELSE {dom})
            /\ \E cost \in WaitCosts(Len(dom') > Len(dom)) :
                 elapsed' = Later(elapsed, cost)
            /\ lastExpand' = [outcome |-> outcome, enqueued |-> cropOk]
            /\ IF cropOk
               THEN /\ crops' = crops + 1
                    /\ queue' = Append(queue, [depth |-> node.depth + 1,
                                               parent |-> SomeParent(norm)])
                    /\ accIdx' = accIdx + 1
                    /\ UNCHANGED << pc, error >>
               ELSE /\ Throw("evidence")
                    /\ UNCHANGED << crops, queue, accIdx >>

\* The pass recording every entry, seen or not.
ForItem_NoSeenTest ==
  /\ pc = "for"
  /\ UNCHANGED << consVars, trackVars, cycleVars, otherVars >>
  /\ accIdx <= Len(acc)
  /\ LET it == acc[accIdx]
         raw == trim(it.question)
         norm == normalize(raw)
         items1 == Append(items, [raw |-> raw, norm |-> norm,
                            depth |-> node.depth,
                            parent |-> node.parent,
                            orderIdx |-> it.orderIdx])
     IN /\ items' = items1
        /\ seen' = seen \cup {norm}
        /\ IF ShouldExpand(node, depthParam, Len(items1), maxNodes)
           THEN Expand(norm)
           ELSE /\ accIdx' = accIdx + 1
                /\ UNCHANGED << dom, crops, queue, lastExpand, expanded,
                                elapsed, pc, error >>
  /\ UNCHANGED << browser, closeCalls, depthParam, maxNodes, located, node, acc,
                  evidence, result >>

\* One pass of for (const it of acc): record the item if unseen, then maybe
\* expand it.
ForItem ==
  /\ pc = "for"
  /\ UNCHANGED << consVars, trackVars, cycleVars, otherVars >>
  /\ accIdx <= Len(acc)
  /\ LET it == acc[accIdx]
         raw == trim(it.question)
         norm == normalize(raw)
         items1 == IF norm \in seen THEN items
                   ELSE Append(items, [raw |-> raw, norm |-> norm,
                                       depth |-> node.depth,
                                       parent |-> node.parent,
                                       orderIdx |-> it.orderIdx])
     IN /\ items' = items1
        /\ seen' = seen \cup {norm}
        /\ IF ShouldExpand(node, depthParam, Len(items1), maxNodes)
           THEN Expand(norm)
           ELSE /\ accIdx' = accIdx + 1
                /\ UNCHANGED << dom, crops, queue, lastExpand, expanded,
                                elapsed, pc, error >>
  /\ UNCHANGED << browser, closeCalls, depthParam, maxNodes, located, node, acc,
                  evidence, result >>

\* After the for loop: if (items.length >= maxNodes) break.
EndFor ==
  /\ pc = "for"
  /\ UNCHANGED << consVars, trackVars, cycleVars, otherVars >>
  /\ accIdx > Len(acc)
  /\ pc' = IF Len(items) >= maxNodes THEN "final" ELSE "loop"
  /\ UNCHANGED << browser, closeCalls, depthParam, maxNodes, dom, located,
                  items, seen, queue, node, acc, accIdx, evidence, crops,
                  elapsed, lastExpand, expanded, result, error >>

\* The full-page screenshot, browser.close(), return.
FinalReturn ==
  /\ pc = "final"
  /\ UNCHANGED << consVars, trackVars, cycleVars, otherVars >>
  /\ \E shotOk \in BOOLEAN, closeOk \in BOOLEAN :
       IF ~shotOk
       THEN /\ Throw("evidence")
            /\ UNCHANGED << browser, closeCalls, evidence, result >>
       ELSE /\ closeCalls' = closeCalls + 1
            /\ IF closeOk
               THEN /\ browser' = "closed"
                    /\ evidence' = [fields |-> {"fullScreenshotB64", "paaHtml", "paaCropsB64"},
                                    crops |-> crops]
                    /\ result' = "returned"
                    /\ pc' = "done"
                    /\ error' = error
               ELSE /\ Throw("close")
                    /\ UNCHANGED << browser, evidence, result >>
  /\ UNCHANGED << depthParam, maxNodes, dom, located, items, seen, queue, node,
                  acc, accIdx, crops, elapsed, lastExpand, expanded >>

\* The catch clause without the close.
Catch_NoClose ==
  /\ pc = "catch"
  /\ UNCHANGED << consVars, trackVars, cycleVars, otherVars >>
  /\ result' = "threw"
  /\ pc' = "done"
  /\ UNCHANGED << browser, closeCalls, depthParam, maxNodes, dom, located, items,
                  seen, queue, node, acc, accIdx, evidence, crops, elapsed,
                  lastExpand, expanded, error >>

\* catch (error) { if (browser) await browser.close().catch(() => {}); throw error; }
Catch ==
  /\ pc = "catch"
  /\ UNCHANGED << consVars, trackVars, cycleVars, otherVars >>
  /\ IF browser # "null"
     THEN /\ closeCalls' = closeCalls + 1
          /\ \E closeOk \in BOOLEAN :
               browser' = IF closeOk THEN "closed" ELSE browser
     ELSE UNCHANGED << browser, closeCalls >>
  /\ result' = "threw"
  /\ pc' = "done"
  /\ UNCHANGED << depthParam, maxNodes, dom, located, items, seen, queue, node,
                  acc, accIdx, evidence, crops, elapsed, lastExpand,
                  expanded, error >>

Next ==
  \/ Launch
  \/ Navigate
  \/ Locate
  \/ ContainerNotFound
  \/ InitialEvidence
  \/ LoopHead
  \/ ForItem
  \/ EndFor
  \/ FinalReturn
  \/ Catch

Spec == Init /\ [][Next]_vars


\* ------------------------------------------------- properties of runSingle

\* C1: when the launch succeeded, browser.close() has been invoked by the time
\* runSingle returns or throws, whichever way it ends.
C1_ClosedOnEveryExit ==
  (pc = "done" /\ browser # "null") => closeCalls >= 1

\* A run that launched, then threw from a page call, and has closed the browser.
C1_ThrowAfterLaunchClosed ==
  /\ pc = "done"
  /\ result = "threw"
  /\ error = "page"
  /\ located = "found"
  /\ browser = "closed"
  /\ closeCalls = 1

\* C2: runSingle never rejects because browser.close() failed.
C2_CloseFailureSwallowed ==
  ~(pc = "done" /\ result = "threw" /\ error = "close")

\* C3: the result of a run never has more items than maxNodes.
C3_ItemsWithinMaxNodes ==
  result = "returned" => Len(items) <= maxNodes

\* C4: no item is deeper than the requested depth, and with depth 0 nothing is
\* expanded and every item has depth 0.
C4_DepthWithinRequested ==
  /\ \A i \in 1..Len(items) : items[i].depth <= depthParam
  /\ \A i \in 1..Len(queue) : queue[i].depth <= depthParam
  /\ depthParam = 0 => ~expanded /\ \A i \in 1..Len(items) : items[i].depth = 0

\* A returned run of requested depth 2 with an item at depth 2.
C4_ItemAtRequestedDepth ==
  /\ result = "returned"
  /\ depthParam = 2
  /\ expanded
  /\ \E i \in 1..Len(items) : items[i].depth = 2

\* C5: when no container is found the run does not fail: it returns no items
\* and an evidence holding the full-page screenshot only.
C5_NotFoundReturnsEmpty ==
  (pc = "done" /\ located = "null") =>
    /\ result = "returned"
    /\ items = <<>>
    /\ evidence = [fields |-> {"fullScreenshotB64"}, crops |-> 0]

\* C6: a failed evidence capture never makes the run throw.
C6_CaptureFailureNotFatal ==
  ~(pc = "done" /\ result = "threw" /\ error = "evidence")

\* C7: an expansion whose control was not found or whose click threw enqueues
\* no child entry, and the run goes on without an error from it.
C7_FailedClickIsLeaf ==
  lastExpand.outcome \in {"notFound", "clickThrew"} => ~lastExpand.enqueued

\* --------------------------------------------------------- runConsensus

Min2(a, b) == IF a < b THEN a ELSE b
Max2(a, b) == IF a > b THEN a ELSE b

\* The clamp without its lower bound.
ClampK_NoLowerBound(k) == Min2(IF k = 0 THEN 1 ELSE k, 3)

\* Math.min(Math.max(params.k || 1, 1), 3)
ClampK(k) == Min2(Max2(IF k = 0 THEN 1 ELSE k, 1), 3)

K == ClampK(kParam)

\* The texts of the pages the consensus runs see.
ConsensusQuestions == {1, 2, 3}

\* The item lists of a run that pushes an item whether or not its key was seen.
RECURSIVE RunItemLists_NoSeenSet(_)
RunItemLists_NoSeenSet(n) ==
  IF n = 0 THEN {<<>>}
  ELSE LET shorter == RunItemLists_NoSeenSet(n - 1)
           Extensions(l) ==
             {Append(l, [raw |-> trim(RawTexts[q]),
                         norm |-> normalize(trim(RawTexts[q])),
                         depth |-> d,
                         parent |-> p,
                         orderIdx |-> Len(l)]) :
                <<q, d, p>> \in
                  {t \in ConsensusQuestions \X (0..MaxItemDepth)
                           \X ({NoParent} \cup {SomeParent(l[i].norm) : i \in 1..Len(l)}) :
                     /\ Len(trim(RawTexts[t[1]])) > 2
                     /\ IF l = <<>> THEN t[2] = 0 ELSE t[2] >= l[Len(l)].depth
                     /\ IF t[2] = 0 THEN t[3] = NoParent
                        ELSE \E i \in 1..Len(l) :
                               t[3] = SomeParent(l[i].norm) /\ l[i].depth < t[2]}}
       IN shorter \cup UNION {Extensions(l) : l \in {x \in shorter : Len(x) = n - 1}}

\* The item lists runSingle can return: the normalized texts are distinct,
\* the first item has depth 0, depths never decrease, an item of depth 0 has
\* no parent and a deeper one has the key of an earlier, shallower item.
RECURSIVE RunItemLists(_)
RunItemLists(n) ==
  IF n = 0 THEN {<<>>}
  ELSE LET shorter == RunItemLists(n - 1)
           Extensions(l) ==
             {Append(l, [raw |-> trim(RawTexts[q]),
                         norm |-> normalize(trim(RawTexts[q])),
                         depth |-> d,
                         parent |-> p,
                         orderIdx |-> Len(l)]) :
                <<q, d, p>> \in
                  {t \in ConsensusQuestions \X (0..MaxItemDepth)
                           \X ({NoParent} \cup {SomeParent(l[i].norm) : i \in 1..Len(l)}) :
                     /\ Len(trim(RawTexts[t[1]])) > 2
                     /\ \A i \in 1..Len(l) : l[i].norm # normalize(trim(RawTexts[t[1]]))
                     /\ IF l = <<>> THEN t[2] = 0 ELSE t[2] >= l[Len(l)].depth
                     /\ IF t[2] = 0 THEN t[3] = NoParent
                        ELSE \E i \in 1..Len(l) :
                               t[3] = SomeParent(l[i].norm) /\ l[i].depth < t[2]}}
       IN shorter \cup UNION {Extensions(l) : l \in {x \in shorter : Len(x) = n - 1}}

PossibleRuns == RunItemLists(MaxRunItems)

RunIdle ==
  /\ pc = "idle"
  /\ browser = "null"
  /\ closeCalls = 0
  /\ depthParam = 0
  /\ maxNodes = 1
  /\ dom = <<>>
  /\ located = "none"
  /\ items = <<>>
  /\ seen = {}
  /\ queue = <<>>
  /\ node = NoNode
  /\ acc = <<>>
  /\ accIdx = 1
  /\ evidence = NoEvidence
  /\ crops = 0
  /\ elapsed = 0
  /\ lastExpand = NoExpand
  /\ expanded = FALSE
  /\ result = "none"
  /\ error = "none"

InitConsensus ==
  /\ RunIdle
  /\ TrackerIdle
  /\ CycleIdle
  /\ OtherIdle
  /\ cpc = "runs"
  /\ kParam \in -1..MaxKParam
  /\ strict \in BOOLEAN
  /\ started = 0
  /\ sessions = <<>>
  /\ runs = <<>>
  /\ results = <<>>
  /\ returnedRuns = <<>>
  /\ cerror = "none"
  /\ cresult = "none"

\* Every item of every run, in the order the merge loops visit them.
RECURSIVE Flatten(_)
Flatten(rs) == IF rs = <<>> THEN <<>> ELSE Head(rs).items \o Flatten(Tail(rs))

\* The keys of a Map filled from s, in insertion order.
RECURSIVE InsertionOrder(_)
InsertionOrder(s) ==
  IF s = <<>> THEN <<>>
  ELSE LET init == InsertionOrder(SubSeq(s, 1, Len(s) - 1))
           last == s[Len(s)]
       IN IF \E i \in 1..Len(init) : init[i] = last THEN init ELSE Append(init, last)

Count(s, x) == Cardinality({i \in 1..Len(s) : s[i] = x})

SeqMin(s) == CHOOSE m \in {s[i] : i \in 1..Len(s)} : \A i \in 1..Len(s) : m <= s[i]

\* topString: the most frequent entry; the sort of the counts is stable, so
\* among the most frequent the first inserted wins.  '' for an empty array.
topString(arr) ==
  IF arr = <<>> THEN <<>>
  ELSE LET keys == InsertionOrder(arr)
           first == CHOOSE i \in 1..Len(keys) :
                      /\ \A j \in 1..Len(keys) : Count(arr, keys[j]) <= Count(arr, keys[i])
                      /\ \A j \in 1..(i - 1) : Count(arr, keys[j]) < Count(arr, keys[i])
       IN keys[first]

\* The appearances map entry of one key and its aggregate.
Aggregate(all, norm) ==
  LET mine == SelectSeq(all, LAMBDA it : it.norm = norm)
      rawSamples == [i \in 1..Len(mine) |-> mine[i].raw]
      depths == [i \in 1..Len(mine) |-> mine[i].depth]
      orderIdxs == [i \in 1..Len(mine) |-> mine[i].orderIdx]
      \* v.parents.filter(Boolean): undefined and '' are dropped
      parents == SelectSeq([i \in 1..Len(mine) |-> mine[i].parent],
                             LAMBDA p : p # NoParent /\ p # SomeParent(<<>>))
      top == topString([i \in 1..Len(parents) |-> parents[i][1]])
  IN [norm |-> norm,
      raw |-> topString(rawSamples),
      depth |-> SeqMin(depths),
      orderIdx |-> SeqMin(orderIdxs),
      parent |-> IF top = <<>> THEN NoParent ELSE SomeParent(top),
      appearances |-> Len(rawSamples)]

\* The quorum as the comment on PAAParams.strict words it for k > 2.
Threshold_AllRuns(s, k) == IF s THEN k ELSE 1

\* params.strict ? Math.min(k, 2) : 1
Threshold(s, k) == IF s THEN Min2(k, 2) ELSE 1

\* n / d rounded to the nearest integer, halves up (d > 0, n >= 0).
RoundDiv(n, d) == (2 * n + d) \div (2 * d)

\* The depth term multiplied in instead of divided.
Confidence_DepthNotInverted(a, k, depth) == RoundDiv(600 * a + 400 * k * (1 + depth), k)

\* The two weights exchanged.
Confidence_WeightsSwapped(a, k, depth) ==
  RoundDiv(400 * a * (1 + depth) + 600 * k, k * (1 + depth))

\* Number((0.6 * (a / k) + 0.4 * (1 / (1 + depth))).toFixed(3)), in thousandths.
Confidence(a, k, depth) == RoundDiv(600 * a * (1 + depth) + 400 * k, k * (1 + depth))

\* The collation rank localeCompare gives the characters of a normalized text.
CharRank(c) ==
  CASE c = " " -> 0
    [] c = "?" -> 1
    [] c = "h" -> 2
    [] c = "o" -> 3
    [] c = "w" -> 4
    [] c = "y" -> 5
    [] OTHER -> 6

\* a.localeCompare(b) < 0
RECURSIVE LocaleLess(_, _)
LocaleLess(a, b) ==
  IF b = <<>> THEN FALSE
  ELSE IF a = <<>> THEN TRUE
  ELSE IF CharRank(Head(a)) # CharRank(Head(b)) THEN CharRank(Head(a)) < CharRank(Head(b))
  ELSE LocaleLess(Tail(a), Tail(b))

\* The comparator with the appearances ascending.
Before_AscendingAppearances(a, b) ==
  IF b.appearances # a.appearances THEN a.appearances < b.appearances
  ELSE IF a.depth # b.depth THEN a.depth < b.depth
  ELSE LocaleLess(a.norm, b.norm)

\* The sort comparator is negative: a goes before b.
Before(a, b) ==
  IF b.appearances # a.appearances THEN b.appearances < a.appearances
  ELSE IF a.depth # b.depth THEN a.depth < b.depth
  ELSE LocaleLess(a.norm, b.norm)

\* Array.prototype.sort (stable) with the comparator above.
RECURSIVE InsertSorted(_, _)
InsertSorted(s, x) ==
  IF s = <<>> THEN <<x>>
  ELSE IF Before(x, Head(s)) THEN <<x>> \o s
  ELSE <<Head(s)>> \o InsertSorted(Tail(s), x)

RECURSIVE SortResults(_)
SortResults(s) ==
  IF s = <<>> THEN <<>>
  ELSE InsertSorted(SortResults(SubSeq(s, 1, Len(s) - 1)), s[Len(s)])

\* The merge: appearances map, aggregation, quorum filter, confidence, sort.
Merge(rs, s, k) ==
  LET all == Flatten(rs)
      keys == InsertionOrder([i \in 1..Len(all) |-> all[i].norm])
      consensus == [i \in 1..Len(keys) |-> Aggregate(all, keys[i])]
      filtered == SelectSeq(consensus, LAMBDA x : x.appearances >= Threshold(s, k))
      withConfidence ==
        [i \in 1..Len(filtered) |->
           [question |-> filtered[i].raw,
            norm |-> filtered[i].norm,
            depth |-> filtered[i].depth,
            parent |-> filtered[i].parent,
            appearances |-> filtered[i].appearances,
            confidence |-> Confidence(filtered[i].appearances, k, filtered[i].depth)]]
  IN SortResults(withConfidence)

\* What a run returns besides its items: the drift fingerprint of hashSERP
\* ('nohash' when it could not be computed) and the evidence.
RunExtras ==
  {[serpHash |-> "3f2a", evidence |-> "shots-a"],
   [serpHash |-> "nohash", evidence |-> "shots-b"]}

\* The errors runSingle rejects with.
RunErrors == {"launch", "page", "close"}

\* for (let i = 0; i < k; i++) ... runSingle(params): the loop test passes and
\* runSingle is invoked.
StartRun ==
  /\ cpc = "runs"
  /\ started < K
  /\ UNCHANGED << runVars, trackVars, cycleVars, otherVars >>
  /\ started' = started + 1
  /\ cpc' = "running"
  /\ UNCHANGED << kParam, strict, sessions, runs, results, returnedRuns, cresult, cerror >>

\* browser = await chromium.launch(...) of the invocation: its own Browser is
\* open, or the launch rejects and runConsensus rejects with it.
LaunchBrowser ==
  /\ cpc = "running"
  /\ UNCHANGED << runVars, trackVars, cycleVars, otherVars >>
  /\ \/ /\ sessions' = Append(sessions, "open")
        /\ cpc' = "launched"
        /\ UNCHANGED << kParam, strict, started, runs, results, returnedRuns, cresult,
                        cerror >>
     \/ /\ cerror' = "launch"
        /\ cpc' = "done"
        /\ cresult' = "threw"
        /\ UNCHANGED << kParam, strict, started, sessions, runs, results, returnedRuns >>

\* The Browser of the latest invocation after a close() that resolved or
\* rejected.
AfterClose(closed) ==
  [sessions EXCEPT ![Len(sessions)] = IF closed THEN "closed" ELSE "open"]

\* The await wrapped in a try whose catch goes on with the next run.
RunOnce_Swallowed ==
  /\ cpc = "launched"
  /\ UNCHANGED << runVars, trackVars, cycleVars, otherVars >>
  /\ cpc' = "runs"
  /\ \/ /\ \E r \in PossibleRuns, x \in RunExtras :
             runs' = Append(runs, [items |-> r, serpHash |-> x.serpHash,
                                   evidence |-> x.evidence])
        /\ sessions' = AfterClose(TRUE)
        /\ UNCHANGED << kParam, strict, started, results, returnedRuns, cresult, cerror >>
     \/ /\ \E e \in RunErrors \ {"launch"} : cerror' = e
        /\ \E closed \in BOOLEAN : sessions' = AfterClose(closed)
        /\ UNCHANGED << kParam, strict, started, runs, results, returnedRuns, cresult >>

\* A rejection of the close() before the return swallowed: the run returns
\* whether or not its Browser was closed.
RunOnce_CloseFailureIgnored ==
  /\ cpc = "launched"
  /\ UNCHANGED << runVars, trackVars, cycleVars, otherVars >>
  /\ \/ /\ \E r \in PossibleRuns, x \in RunExtras :
             runs' = Append(runs, [items |-> r, serpHash |-> x.serpHash,
                                   evidence |-> x.evidence])
        /\ \E closed \in BOOLEAN : sessions' = AfterClose(closed)
        /\ cpc' = "runs"
        /\ UNCHANGED << kParam, strict, started, results, returnedRuns, cresult, cerror >>
     \/ /\ cerror' = "page"
        /\ \E closed \in BOOLEAN : sessions' = AfterClose(closed)
        /\ cpc' = "done"
        /\ cresult' = "threw"
        /\ UNCHANGED << kParam, strict, started, runs, results, returnedRuns >>

\* runs.push(await runSingle(params)) after the launch: the run closes its
\* Browser, returns and is pushed; or it rejects, on the page or at the close()
\* before the return, its catch calls close() again, which resolves or
\* rejects unheard, and runConsensus rejects with the same error.
RunOnce ==
  /\ cpc = "launched"
  /\ UNCHANGED << runVars, trackVars, cycleVars, otherVars >>
  /\ \/ /\ \E r \in PossibleRuns, x \in RunExtras :
             runs' = Append(runs, [items |-> r, serpHash |-> x.serpHash,
                                   evidence |-> x.evidence])
        /\ sessions' = AfterClose(TRUE)
        /\ cpc' = "runs"
        /\ UNCHANGED << kParam, strict, started, results, returnedRuns, cresult, cerror >>
     \/ /\ \E e \in RunErrors \ {"launch"} : cerror' = e
        /\ \E closed \in BOOLEAN : sessions' = AfterClose(closed)
        /\ cpc' = "done"
        /\ cresult' = "threw"
        /\ UNCHANGED << kParam, strict, started, runs, results, returnedRuns >>

\* Everything after the run loop, up to the return.
MergeRuns ==
  /\ cpc = "runs"
  /\ started >= K
  /\ UNCHANGED << runVars, trackVars, cycleVars, otherVars >>
  /\ results' = Merge(runs, strict, K)
  /\ returnedRuns' = [i \in 1..Len(runs) |->
                        [serpHash |-> runs[i].serpHash, evidence |-> runs[i].evidence]]
  /\ cresult' = "returned"
  /\ cpc' = "done"
  /\ UNCHANGED << kParam, strict, started, sessions, runs, cerror >>

NextConsensus ==
  \/ StartRun
  \/ LaunchBrowser
  \/ RunOnce
  \/ MergeRuns

SpecConsensus == InitConsensus /\ [][NextConsensus]_vars

\* ---------------------------------------------- properties of runConsensus

\* The number of runs in which a key occurs.
RunsWith(n) ==
  Cardinality({i \in 1..Len(runs) : \E j \in 1..Len(runs[i].items) : runs[i].items[j].norm = n})

\* Every key of every run.
AllNorms == {runs[t[1]].items[t[2]].norm :
               t \in {u \in (1..Len(runs)) \X (1..MaxRunItems + 1) :
                        u[2] <= Len(runs[u[1]].items)}}

Abs(x) == IF x < 0 THEN -x ELSE x

\* C8: every consensus result has 1 <= appearances <= K and 0 < confidence <= 1
\* (confidence in thousandths).
C8_AppearancesAndConfidenceBounds ==
  cresult = "returned" =>
    \A i \in 1..Len(results) :
      /\ 1 <= results[i].appearances
      /\ results[i].appearances <= K
      /\ 0 < results[i].confidence
      /\ results[i].confidence <= 1000

\* Three runs merged into a key seen in all of them and a key seen once.
C8_SeenInAllAndInOne ==
  /\ cresult = "returned"
  /\ K = 3
  /\ \E i \in 1..Len(results) : results[i].appearances = 3
  /\ \E i \in 1..Len(results) : results[i].appearances = 1 /\ results[i].depth > 0

C11_StrictSeenInTwoRuns ==
  (cresult = "returned" /\ strict) =>
    \A i \in 1..Len(results) : RunsWith(results[i].norm) >= 2

\* b's sort key (appearances descending, depth ascending, text ascending) is
\* smaller than a's.
KeyGreater(a, b) ==
  \/ a.appearances < b.appearances
  \/ a.appearances = b.appearances /\ a.depth > b.depth
  \/ a.appearances = b.appearances /\ a.depth = b.depth /\ LocaleLess(b.norm, a.norm)

ExpectedRuns == IF kParam < 1 THEN 1 ELSE IF kParam > 3 THEN 3 ELSE kParam

\* C13: whatever k is requested, runSingle is invoked min(max(k, 1), 3) times
\* and never more, one run at a time; the merge is computed only when all of
\* them have completed, and the returned runs hold the serpHash and evidence
\* of each run, in run order.
C13_RunCountAndOrder ==
  /\ started <= ExpectedRuns
  /\ Len(runs) = (IF cpc \in {"running", "launched"} \/ cresult = "threw"
                   THEN started - 1 ELSE started)
  /\ (cresult # "returned") => (results = <<>> /\ returnedRuns = <<>>)
  /\ (cresult = "returned") =>
       /\ started = ExpectedRuns
       /\ Len(returnedRuns) = ExpectedRuns
       /\ \A i \in 1..ExpectedRuns :
            returnedRuns[i] = [serpHash |-> runs[i].serpHash,
                               evidence |-> runs[i].evidence]

\* A request for more than 3 runs returned after 3, the first two with
\* different fingerprints.
C13_ClampedToThree ==
  /\ cresult = "returned"
  /\ kParam > 3
  /\ Len(returnedRuns) = 3
  /\ returnedRuns[1].serpHash # returnedRuns[2].serpHash

\* C14: when a run rejects, runConsensus rejects with that error: nothing is
\* returned, neither results nor runs, and no further run is started.
C14_FailedRunFailsRequest ==
  (cerror # "none") =>
    /\ cresult = "threw"
    /\ cerror \in RunErrors
    /\ results = <<>>
    /\ returnedRuns = <<>>
    /\ started = Len(runs) + 1
    /\ ~ENABLED StartRun
    /\ ~ENABLED MergeRuns

\* The second of three requested runs rejected.
C14_SecondRunThrew ==
  /\ cresult = "threw"
  /\ K = 3
  /\ started = 2
  /\ Len(runs) = 1

\* ------------------------------------------------- the question hash

Alphabet ==
  <<"a", "b", "c", "d", "e", "f", "g", "h", "i", "j", "k", "l", "m",
    "n", "o", "p", "q", "r", "s", "t", "u", "v", "w", "x", "y", "z">>

\* \w after toLowerCase: a letter, a digit or the underscore.
IsWordChar(c) ==
  \/ \E i \in 1..Len(Alphabet) : Alphabet[i] = c
  \/ c \in {"0", "1", "2", "3", "4", "5", "6", "7", "8", "9", "_"}

\* The length of the run of word characters s starts with.
RECURSIVE WordLen(_)
WordLen(s) ==
  IF s = <<>> \/ ~IsWordChar(Head(s)) THEN 0 ELSE 1 + WordLen(Tail(s))

FillerWords == {<<"t", "h", "e">>, <<"a">>, <<"a", "n">>}

\* .replace(/\b(the|a|an)\b/g, ''): s starts at a word boundary.
RECURSIVE RemoveFillers(_)
RemoveFillers(s) ==
  IF s = <<>> THEN <<>>
  ELSE IF ~IsWordChar(Head(s)) THEN <<Head(s)>> \o RemoveFillers(Tail(s))
  ELSE LET n == WordLen(s)
           w == SubSeq(s, 1, n)
       IN (IF w \in FillerWords THEN <<>> ELSE w) \o RemoveFillers(SubSeq(s, n + 1, Len(s)))

\* normalizeQuestion: lower case, trim, drop what is not \w, \s or ', collapse
\* whitespace, drop the filler words, trim.
normalizeQuestion(question) ==
  LET lower == trim([i \in 1..Len(question) |-> toLowerCase(question[i])])
      kept == SelectSeq(lower, LAMBDA c : IsWordChar(c) \/ IsSpace(c) \/ c = "'")
  IN trim(RemoveFillers(CollapseSpaces(kept)))

\* encodeURIComponent on what normalizeQuestion leaves: word characters and
\* the apostrophe are unreserved, a space becomes %20.
RECURSIVE encodeURIComponent(_)
encodeURIComponent(s) ==
  IF s = <<>> THEN <<>>
  ELSE (IF Head(s) = " " THEN <<"%", "2", "0">> ELSE <<Head(s)>>)
         \o encodeURIComponent(Tail(s))

\* The character code of a character of an encoded text.
CharCode(c) ==
  CASE c = "%" -> 37
    [] c = "'" -> 39
    [] c \in {"0", "1", "2", "3", "4", "5", "6", "7", "8", "9"} ->
         48 + (CHOOSE d \in 0..9 : <<"0", "1", "2", "3", "4", "5", "6", "7", "8", "9">>[d + 1] = c)
    [] c = "_" -> 95
    [] OTHER -> 96 + (CHOOSE i \in 1..Len(Alphabet) : Alphabet[i] = c)

\* The index btoa gives the padding character '=', after the 64 digits.
Base64Pad == 64

\* btoa: three bytes become four base-64 digits (written as their indexes
\* 0..63), the last group is padded.
RECURSIVE btoa(_)
btoa(b) ==
  IF b = <<>> THEN <<>>
  ELSE IF Len(b) = 1
       THEN <<b[1] \div 4, (b[1] % 4) * 16, Base64Pad, Base64Pad>>
  ELSE IF Len(b) = 2
       THEN <<b[1] \div 4, (b[1] % 4) * 16 + b[2] \div 16, (b[2] % 16) * 4, Base64Pad>>
  ELSE <<b[1] \div 4, (b[1] % 4) * 16 + b[2] \div 16,
         (b[2] % 16) * 4 + b[3] \div 64, b[3] % 64>> \o btoa(SubSeq(b, 4, Len(b)))

\* The number of base-64 digits hashQuestion keeps.
HashLength == 32

\* btoa(encodeURIComponent(normalized)).slice(0, 32)
hashQuestion(question) ==
  LET enc == encodeURIComponent(normalizeQuestion(question))
      b64 == btoa([i \in 1..Len(enc) |-> CharCode(enc[i])])
  IN SubSeq(b64, 1, Min2(HashLength, Len(b64)))

\* The questions the result pages of the tracked keyword show.  The first two
\* differ after the 24 bytes the hash covers and so share a hash.
TrackedTexts ==
  << <<"H", "o", "w", " ", "d", "o", " ", "y", "o", "u", " ", "m", "a", "k", "e", " ", "t", "e", "a", "?">>,
     <<"H", "o", "w", " ", "d", "o", " ", "y", "o", "u", " ", "m", "a", "k", "e", " ", "j", "a", "m", "?">>,
     <<"W", "h", "y", "?">>,
     <<"W", "h", "o", " ", "i", "s", " ", "a", " ", "v", "e", "t", "?">> >>

TrackedQuestions == 1..Len(TrackedTexts)

HashOf == [q \in TrackedQuestions |-> hashQuestion(TrackedTexts[q])]

\* A question hash, named by the first tracked question that has it: hashes
\* are only ever compared for equality.
KeyOf ==
  [q \in TrackedQuestions |->
     CHOOSE r \in TrackedQuestions :
       /\ HashOf[r] = HashOf[q]
       /\ \A x \in TrackedQuestions : HashOf[x] = HashOf[q] => r <= x]

\* ------------------------------------------------------- checkKeyword

\* Largest number of diff passes made for the tracked keyword.
MaxCycles == 3

\* Every ordering of every subset of S.
RECURSIVE Arrangements(_)
Arrangements(S) ==
  {<<>>} \cup UNION {{<<q>> \o t : t \in Arrangements(S \ {q})} : q \in S}

\* The lists fetchPAAFromSerp resolves to: questions with pairwise different
\* hashes, or questions sharing a hash, in any number and order.
Serps ==
  Arrangements({q \in TrackedQuestions : KeyOf[q] = q})
    \cup Arrangements({q \in TrackedQuestions :
                         \E r \in TrackedQuestions : r # q /\ KeyOf[r] = KeyOf[q]})

RECURSIVE Gcd(_, _)
Gcd(a, b) == IF b = 0 THEN a ELSE Gcd(b, a % b)

\* The REAL n / d, in lowest terms (n >= 0, d > 0).
Fraction(n, d) == [num |-> n \div Gcd(n, d), den |-> d \div Gcd(n, d)]

\* Array.prototype.findIndex for a hash, zero-based; -1 when there is none.
FindIndex(list, h) ==
  IF \E i \in 1..Len(list) : list[i].hash = h
  THEN (CHOOSE i \in 1..Len(list) :
          list[i].hash = h /\ \A j \in 1..(i - 1) : list[j].hash # h) - 1
  ELSE -1

\* The diff with removed computed against the added entries instead of the
\* current list.
diffPAALists_RemovedAgainstAdded(previous, current) ==
  LET added == SelectSeq(current, LAMBDA q : FindIndex(previous, q.hash) = -1)
  IN [added |-> added,
      removed |-> SelectSeq(previous, LAMBDA q : FindIndex(added, q.hash) = -1),
      positionChanges |-> <<>>]

\* diffPAALists: prevMap.has and currMap.has are membership of the hash.
diffPAALists(previous, current) ==
  LET moved == SelectSeq(current, LAMBDA q : /\ FindIndex(previous, q.hash) # -1
                                             /\ FindIndex(previous, q.hash) # q.position)
  IN [added |-> SelectSeq(current, LAMBDA q : FindIndex(previous, q.hash) = -1),
      removed |-> SelectSeq(previous, LAMBDA q : FindIndex(current, q.hash) = -1),
      positionChanges |->
        [i \in 1..Len(moved) |->
           [question |-> moved[i].question,
            hash |-> moved[i].hash,
            oldPosition |-> FindIndex(previous, moved[i].hash),
            newPosition |-> moved[i].position]]]

\* The arguments checkKeyword hands to diffPAALists.
PreviousEntries(prev) ==
  [i \in 1..Len(prev) |-> [question |-> prev[i].question, hash |-> prev[i].question_hash]]

CurrentEntries(cur) ==
  [i \in 1..Len(cur) |-> [question |-> cur[i], hash |-> KeyOf[cur[i]], position |-> i - 1]]

\* (previousQuestions.results || []).find(p => p.question_hash === hash), as
\* an index into prev; 0 when there is none.
FindPrev(prev, h) ==
  IF \E i \in 1..Len(prev) : prev[i].question_hash = h
  THEN CHOOSE i \in 1..Len(prev) :
         prev[i].question_hash = h /\ \A j \in 1..(i - 1) : prev[j].question_hash # h
  ELSE 0

\* Math.abs(moved.oldPosition - moved.newPosition) >= 2
Significant(moved) == Abs(moved.oldPosition - moved.newPosition) >= 2

\* The next storage write of the pass from loop entry i of a step on: loop
\* entries that write nothing are passed over.
RECURSIVE NextWrite(_, _, _, _, _)
NextWrite(step, i, d, cur, prev) ==
  CASE step = "added" ->
         IF i <= Len(d.added) THEN <<step, i>> ELSE NextWrite("removed", 1, d, cur, prev)
    [] step = "removed" ->
         IF i <= Len(d.removed) THEN <<step, i>> ELSE NextWrite("retained", 1, d, cur, prev)
    [] step = "retained" ->
         IF i > Len(cur) THEN NextWrite("moved", 1, d, cur, prev)
         ELSE IF FindPrev(prev, KeyOf[cur[i]]) # 0 THEN <<step, i>>
         ELSE NextWrite("retained", i + 1, d, cur, prev)
    [] step = "moved" ->
         IF i > Len(d.positionChanges) THEN <<"stamp", 1>>
         ELSE IF Significant(d.positionChanges[i]) THEN <<step, i>>
         ELSE NextWrite("moved", i + 1, d, cur, prev)
    [] OTHER -> <<step, i>>

InitTracker ==
  /\ RunIdle
  /\ ConsensusIdle
  /\ CycleIdle
  /\ OtherIdle
  /\ tpc = "idle"
  /\ tsub = 1
  /\ ti = 1
  /\ cycle = 0
  /\ currentPAA = <<>>
  /\ previousQuestions = <<>>
  /\ diff = NoDiff
  /\ questions = <<>>
  /\ changes = <<>>
  /\ olderChanges = 0
  /\ snapshots = <<>>
  /\ olderSnapshots = <<>>
  /\ lastChecked = 0
  /\ tresult = "none"

\* Steps 1 to 3 over the rows of the keyword: the fetch, the SELECT of the
\* active rows (in rowid order) and the diff; the fetch or the SELECT may
\* reject.
FetchSelectDiff(rows) ==
  \/ \E serp \in Serps :
       LET prev == SelectSeq(rows, LAMBDA r : r.is_current)
       IN /\ currentPAA' = serp
          /\ previousQuestions' = prev
          /\ diff' = diffPAALists(PreviousEntries(prev), CurrentEntries(serp))
          /\ tpc' = "snapshot"
          /\ tresult' = "none"
  \/ /\ currentPAA' = <<>>
     /\ previousQuestions' = <<>>
     /\ diff' = NoDiff
     /\ tpc' = "fetch"
     /\ tresult' = "threw"

\* A call of checkKeyword for the keyword, up to the diff.
FetchAndDiff ==
  /\ tpc \in {"idle", "done"}
  /\ cycle < MaxCycles
  /\ UNCHANGED << runVars, consVars, cycleVars, otherVars >>
  /\ cycle' = cycle + 1
  /\ olderChanges' = olderChanges + Len(changes)
  /\ changes' = <<>>
  /\ olderSnapshots' = olderSnapshots \o snapshots
  /\ snapshots' = <<>>
  /\ tsub' = 1
  /\ ti' = 1
  /\ UNCHANGED << questions, lastChecked >>
  /\ FetchSelectDiff(questions)

\* Moves on to the next write after loop entry i of a step.
GoOn(step, i) ==
  /\ tpc' = NextWrite(step, i, diff, currentPAA, previousQuestions)[1]
  /\ ti' = NextWrite(step, i, diff, currentPAA, previousQuestions)[2]
  /\ tsub' = 1

\* The snapshot stored only when the diff is not empty.
StoreSnapshot_OnlyOnChange ==
  /\ tpc = "snapshot"
  /\ tresult = "none"
  /\ UNCHANGED << runVars, consVars, cycleVars, otherVars >>
  /\ snapshots' = IF diff = NoDiff THEN snapshots ELSE Append(snapshots, currentPAA)
  /\ GoOn("added", 1)
  /\ UNCHANGED << cycle, currentPAA, previousQuestions, diff, questions, changes,
                  olderChanges, olderSnapshots, lastChecked, tresult >>

\* The snapshot write stamping the keyword as checked as well.
StoreSnapshot_Stamps ==
  /\ tpc = "snapshot"
  /\ tresult = "none"
  /\ UNCHANGED << runVars, consVars, cycleVars, otherVars >>
  /\ snapshots' = Append(snapshots, currentPAA)
  /\ lastChecked' = cycle
  /\ GoOn("added", 1)
  /\ UNCHANGED << cycle, currentPAA, previousQuestions, diff, questions, changes,
                  olderChanges, olderSnapshots, tresult >>

\* Step 4: INSERT INTO paa_snapshots ... JSON.stringify(currentPAA)
StoreSnapshot ==
  /\ tpc = "snapshot"
  /\ tresult = "none"
  /\ UNCHANGED << runVars, consVars, cycleVars, otherVars >>
  /\ snapshots' = Append(snapshots, currentPAA)
  /\ GoOn("added", 1)
  /\ UNCHANGED << cycle, currentPAA, previousQuestions, diff, questions, changes,
                  olderChanges, olderSnapshots, lastChecked, tresult >>

\* Step 5, first write: INSERT INTO paa_questions ... VALUES (..., 1, ?, 1)
InsertQuestion ==
  /\ tpc = "added"
  /\ tresult = "none"
  /\ tsub = 1
  /\ UNCHANGED << runVars, consVars, cycleVars, otherVars >>
  /\ questions' = Append(questions,
                         [id |-> Len(questions) + 1,
                          question |-> diff.added[ti].question,
                          question_hash |-> diff.added[ti].hash,
                          times_seen |-> 1,
                          avg_position |-> Fraction(diff.added[ti].position, 1),
                          is_current |-> TRUE])
  /\ tsub' = 2
  /\ UNCHANGED << tpc, ti, cycle, currentPAA, previousQuestions, diff, changes,
                  olderChanges, snapshots, olderSnapshots, lastChecked, tresult >>

\* Step 5, second write: INSERT INTO paa_changes ... 'added'
InsertAdded ==
  /\ tpc = "added"
  /\ tresult = "none"
  /\ tsub = 2
  /\ UNCHANGED << runVars, consVars, cycleVars, otherVars >>
  /\ changes' = Append(changes,
                       [change_type |-> "added",
                        question |-> diff.added[ti].question,
                        question_hash |-> diff.added[ti].hash,
                        old_position |-> -1,
                        new_position |-> diff.added[ti].position])
  /\ GoOn("added", ti + 1)
  /\ UNCHANGED << cycle, currentPAA, previousQuestions, diff, questions,
                  olderChanges, snapshots, olderSnapshots, lastChecked, tresult >>

\* The update clearing only the first active row of the hash.
ClearCurrent_FirstMatch ==
  /\ tpc = "removed"
  /\ tresult = "none"
  /\ tsub = 1
  /\ UNCHANGED << runVars, consVars, cycleVars, otherVars >>
  /\ questions' = [i \in 1..Len(questions) |->
                     IF questions[i].id =
                          previousQuestions[FindPrev(previousQuestions,
                                                     diff.removed[ti].hash)].id
                     THEN [questions[i] EXCEPT !.is_current = FALSE]
                     ELSE questions[i]]
  /\ tsub' = 2
  /\ UNCHANGED << tpc, ti, cycle, currentPAA, previousQuestions, diff, changes,
                  olderChanges, snapshots, olderSnapshots, lastChecked, tresult >>

\* Step 6, first write: UPDATE paa_questions SET is_current = 0 WHERE
\* keyword_id = ? AND question_hash = ?
ClearCurrent ==
  /\ tpc = "removed"
  /\ tresult = "none"
  /\ tsub = 1
  /\ UNCHANGED << runVars, consVars, cycleVars, otherVars >>
  /\ questions' = [i \in 1..Len(questions) |->
                     IF questions[i].question_hash = diff.removed[ti].hash
                     THEN [questions[i] EXCEPT !.is_current = FALSE]
                     ELSE questions[i]]
  /\ tsub' = 2
  /\ UNCHANGED << tpc, ti, cycle, currentPAA, previousQuestions, diff, changes,
                  olderChanges, snapshots, olderSnapshots, lastChecked, tresult >>

\* Step 6, second write: INSERT INTO paa_changes ... 'removed'
InsertRemoved ==
  /\ tpc = "removed"
  /\ tresult = "none"
  /\ tsub = 2
  /\ UNCHANGED << runVars, consVars, cycleVars, otherVars >>
  /\ changes' = Append(changes,
                       [change_type |-> "removed",
                        question |-> diff.removed[ti].question,
                        question_hash |-> diff.removed[ti].hash,
                        old_position |-> -1,
                        new_position |-> -1])
  /\ GoOn("removed", ti + 1)
  /\ UNCHANGED << cycle, currentPAA, previousQuestions, diff, questions,
                  olderChanges, snapshots, olderSnapshots, lastChecked, tresult >>

\* The running mean (prev.avg_position * prev.times_seen + position) / newTimesSeen
NewAvgPosition(prev, position) ==
  Fraction(prev.avg_position.num * prev.times_seen + position * prev.avg_position.den,
           prev.avg_position.den * (prev.times_seen + 1))

\* Step 7: UPDATE paa_questions SET last_seen_at, times_seen, avg_position
\* WHERE id = prev.id, for a current entry found in the previous rows.
UpdateSeen ==
  /\ tpc = "retained"
  /\ tresult = "none"
  /\ UNCHANGED << runVars, consVars, cycleVars, otherVars >>
  /\ LET prev == previousQuestions[FindPrev(previousQuestions, KeyOf[currentPAA[ti]])]
     IN questions' = [i \in 1..Len(questions) |->
                        IF questions[i].id = prev.id
                        THEN [questions[i] EXCEPT
                                !.times_seen = prev.times_seen + 1,
                                !.avg_position = NewAvgPosition(prev, ti - 1)]
                        ELSE questions[i]]
  /\ GoOn("retained", ti + 1)
  /\ UNCHANGED << cycle, currentPAA, previousQuestions, diff, changes,
                  olderChanges, snapshots, olderSnapshots, lastChecked, tresult >>

\* Step 8: INSERT INTO paa_changes ... 'position_change'
InsertMoved ==
  /\ tpc = "moved"
  /\ tresult = "none"
  /\ UNCHANGED << runVars, consVars, cycleVars, otherVars >>
  /\ changes' = Append(changes,
                       [change_type |-> "position_change",
                        question |-> diff.positionChanges[ti].question,
                        question_hash |-> diff.positionChanges[ti].hash,
                        old_position |-> diff.positionChanges[ti].oldPosition,
                        new_position |-> diff.positionChanges[ti].newPosition])
  /\ GoOn("moved", ti + 1)
  /\ UNCHANGED << cycle, currentPAA, previousQuestions, diff, questions,
                  olderChanges, snapshots, olderSnapshots, lastChecked, tresult >>

\* Step 9: UPDATE tracked_keywords SET last_checked_at, and return diff.
StampKeyword ==
  /\ tpc = "stamp"
  /\ tresult = "none"
  /\ UNCHANGED << runVars, consVars, cycleVars, otherVars >>
  /\ lastChecked' = cycle
  /\ tpc' = "done"
  /\ tresult' = "returned"
  /\ UNCHANGED << tsub, ti, cycle, currentPAA, previousQuestions, diff, questions,
                  changes, olderChanges, snapshots, olderSnapshots >>

\* The awaited write of any step rejects: checkKeyword rejects with it.
WriteFails ==
  /\ tpc \in {"snapshot", "added", "removed", "retained", "moved", "stamp"}
  /\ tresult = "none"
  /\ UNCHANGED << runVars, consVars, cycleVars, otherVars >>
  /\ tresult' = "threw"
  /\ UNCHANGED << tpc, tsub, ti, cycle, currentPAA, previousQuestions, diff, questions,
                  changes, olderChanges, snapshots, olderSnapshots, lastChecked >>

NextTracker ==
  \/ FetchAndDiff
  \/ StoreSnapshot
  \/ InsertQuestion
  \/ InsertAdded
  \/ ClearCurrent
  \/ InsertRemoved
  \/ UpdateSeen
  \/ InsertMoved
  \/ StampKeyword
  \/ WriteFails

SpecTracker == InitTracker /\ [][NextTracker]_vars

\* ----------------------------------------------------------- normalize

\* Largest length of a string handed to normalize.
MaxTextLen == 3

\* The characters of those strings: letters of either case inside and outside
\* ASCII, a combining mark, digits, whitespace, quotes and punctuation.
NormChars ==
  {"Q", "q", "I", "i", "U+0130", "U+211A", "U+0307", "2", "U+00B2",
   " ", "\t", "U+00A0", "'", "U+201E", "?", "!"}

RECURSIVE Strings(_)
Strings(n) ==
  IF n = 0 THEN {<<>>}
  ELSE Strings(n - 1)
         \cup {Append(t, c) : t \in {x \in Strings(n - 1) : Len(x) = n - 1}, c \in NormChars}

InitNormalize ==
  /\ RunIdle
  /\ ConsensusIdle
  /\ TrackerIdle
  /\ CycleIdle
  /\ LimitIdle
  /\ NotifyIdle
  /\ PostIdle
  /\ npc = "start"
  /\ ntext \in Strings(MaxTextLen)
  /\ once = <<>>
  /\ twice = <<>>

\* normalize(s)
NormalizeOnce ==
  /\ npc = "start"
  /\ once' = normalize(ntext)
  /\ npc' = "once"
  /\ UNCHANGED << ntext, twice >>
  /\ UNCHANGED << runVars, consVars, trackVars, cycleVars, limitVars, notifyVars, postVars >>

\* normalize(normalize(s))
NormalizeTwice ==
  /\ npc = "once"
  /\ twice' = normalize(once)
  /\ npc' = "twice"
  /\ UNCHANGED << ntext, once >>
  /\ UNCHANGED << runVars, consVars, trackVars, cycleVars, limitVars, notifyVars, postVars >>

NextNormalize == NormalizeOnce \/ NormalizeTwice

SpecNormalize == InitNormalize /\ [][NextNormalize]_vars

\* ---------------------------------------------------- runTrackingCycle

\* Largest number of tracked keywords due in one cycle.
MaxKeywords == 2

Keywords == 1..MaxKeywords

\* The tracked questions with pairwise different hashes, in ascending order.
DistinctList ==
  CHOOSE s \in Arrangements({q \in TrackedQuestions : KeyOf[q] = q}) :
    /\ Len(s) = Cardinality({q \in TrackedQuestions : KeyOf[q] = q})
    /\ \A i \in 1..(Len(s) - 1) : s[i] < s[i + 1]

\* The rows of paa_questions after one completed pass over a list for a
\* keyword that had none: step 5 inserts one row per entry.
FirstPassRows(serp) ==
  [i \in 1..Len(serp) |->
     [id |-> i,
      question |-> serp[i],
      question_hash |-> KeyOf[serp[i]],
      times_seen |-> 1,
      avg_position |-> Fraction(i - 1, 1),
      is_current |-> TRUE]]

\* The lists earlier passes observed for a due keyword: it was never checked
\* (last_checked_at IS NULL), or it was checked once and its interval is over.
SeenBefore == {<<>>, <<DistinctList>>}

InitCycle ==
  /\ RunIdle
  /\ ConsensusIdle
  /\ TrackerIdle
  /\ OtherIdle
  /\ rpc = "select"
  /\ dueKeywords = <<>>
  /\ kwi = 1
  /\ passed = <<>>
  /\ caught = {}
  /\ totalChanges = 0
  /\ cycleResult = CycleResult("none", 0, 0)

\* The SELECT of the due keywords, outside the try: it resolves to distinct
\* rows of tracked_keywords in some order, or rejects.
SelectDue ==
  /\ rpc = "select"
  /\ UNCHANGED << runVars, consVars, trackVars, otherVars >>
  /\ UNCHANGED << kwi, passed, caught, totalChanges >>
  /\ \/ /\ dueKeywords' \in Arrangements(Keywords)
        /\ rpc' = "loop"
        /\ cycleResult' = CycleResult("none", 0, 0)
     \/ /\ dueKeywords' = <<>>
        /\ rpc' = "done"
        /\ cycleResult' = CycleResult("threw", 0, 0)

\* The loop body calls checkKeyword for the next due keyword. Every statement
\* of checkKeyword is bound to keyword.id, so the tables are those of the
\* keyword under check.
CheckDue ==
  /\ rpc = "loop"
  /\ kwi <= Len(dueKeywords)
  /\ UNCHANGED << runVars, consVars, otherVars >>
  /\ rpc' = "check"
  /\ passed' = Append(passed, dueKeywords[kwi])
  /\ UNCHANGED << dueKeywords, kwi, caught, totalChanges, cycleResult >>
  /\ tsub' = 1
  /\ ti' = 1
  /\ changes' = <<>>
  /\ snapshots' = <<>>
  /\ \E before \in SeenBefore :
       LET rows == IF before = <<>> THEN <<>> ELSE FirstPassRows(before[1])
       IN /\ olderSnapshots' = before
          /\ olderChanges' = Len(rows)
          /\ cycle' = Len(before) + 1
          /\ lastChecked' = Len(before)
          /\ questions' = rows
          /\ FetchSelectDiff(rows)

\* The catch escalating the failure of a keyword to the cycle.
Caught_Escalated ==
  /\ rpc = "check"
  /\ tresult = "threw"
  /\ UNCHANGED << runVars, consVars, trackVars, otherVars >>
  /\ rpc' = "done"
  /\ cycleResult' = CycleResult("threw", 0, 0)
  /\ UNCHANGED << dueKeywords, kwi, passed, caught, totalChanges >>

\* checkKeyword resolved: totalChanges += added + removed + positionChanges
Checked ==
  /\ rpc = "check"
  /\ tresult = "returned"
  /\ UNCHANGED << runVars, consVars, trackVars, otherVars >>
  /\ totalChanges' = totalChanges + Len(diff.added) + Len(diff.removed)
                       + Len(diff.positionChanges)
  /\ kwi' = kwi + 1
  /\ rpc' = "loop"
  /\ UNCHANGED << dueKeywords, passed, caught, cycleResult >>

\* checkKeyword rejected: catch (error) { console.error(...) }
Caught ==
  /\ rpc = "check"
  /\ tresult = "threw"
  /\ UNCHANGED << runVars, consVars, trackVars, otherVars >>
  /\ caught' = caught \cup {dueKeywords[kwi]}
  /\ kwi' = kwi + 1
  /\ rpc' = "loop"
  /\ UNCHANGED << dueKeywords, passed, totalChanges, cycleResult >>

\* return { checked: dueKeywords.results?.length || 0, changes: totalChanges }
ReturnCycle ==
  /\ rpc = "loop"
  /\ kwi > Len(dueKeywords)
  /\ UNCHANGED << runVars, consVars, trackVars, otherVars >>
  /\ cycleResult' = CycleResult("returned", Len(dueKeywords), totalChanges)
  /\ rpc' = "done"
  /\ UNCHANGED << dueKeywords, kwi, passed, caught, totalChanges >>

NextCycle ==
  \/ SelectDue
  \/ CheckDue
  \/ StoreSnapshot
  \/ InsertQuestion
  \/ InsertAdded
  \/ ClearCurrent
  \/ InsertRemoved
  \/ UpdateSeen
  \/ InsertMoved
  \/ StampKeyword
  \/ WriteFails
  \/ Checked
  \/ Caught
  \/ ReturnCycle

SpecCycle == InitCycle /\ [][NextCycle]_vars

\* ------------------------------------------------- tracked keyword limit

\* Largest number of POST /api/tracker/keywords requests of the user.
MaxPosts == 5

Tiers == {"free", "pro", "agency"}

\* getTierLimits(tier).keywords
getTierLimits(t) ==
  CASE t = "free" -> 3
    [] t = "pro" -> 25
    [] t = "agency" -> 100

\* SELECT COUNT(*) ... WHERE p.user_id = ? AND tk.is_active = 1
ActiveCount == Cardinality({r \in 1..Len(tracked) : tracked[r] = "active"})

InitLimit ==
  /\ RunIdle
  /\ ConsensusIdle
  /\ TrackerIdle
  /\ CycleIdle
  /\ NormIdle
  /\ NotifyIdle
  /\ PostIdle
  /\ tier \in Tiers
  /\ tracked = [r \in 1..MaxPosts |-> "none"]
  /\ posts = [r \in 1..MaxPosts |-> "new"]

\* POST /keywords up to the limit check: checkKeywordLimit reads the count
\* and the request is refused with 403 unless current < limit.
PostCheckLimit(r) ==
  /\ posts[r] = "new"
  /\ posts' = [posts EXCEPT ![r] = IF ActiveCount < getTierLimits(tier)
                                    THEN "allowed" ELSE "403"]
  /\ UNCHANGED << tier, tracked >>
  /\ UNCHANGED << runVars, consVars, trackVars, cycleVars, normVars, notifyVars, postVars >>

\* POST /keywords after the limit check: the project is not the user's (404)
\* or the row is inserted, is_active defaulting to 1; what follows the INSERT
\* neither reads nor writes is_active.
PostInsert(r) ==
  /\ posts[r] = "allowed"
  /\ \/ /\ posts' = [posts EXCEPT ![r] = "404"]
        /\ UNCHANGED tracked
     \/ /\ posts' = [posts EXCEPT ![r] = "inserted"]
        /\ tracked' = [tracked EXCEPT ![r] = "active"]
  /\ UNCHANGED tier
  /\ UNCHANGED << runVars, consVars, trackVars, cycleVars, normVars, notifyVars, postVars >>

\* PATCH /keywords/:id with is_active in the body: UPDATE tracked_keywords SET
\* is_active = ? WHERE id = ?
PatchActive(r, active) ==
  /\ tracked[r] \in {"active", "paused"}
  /\ tracked' = [tracked EXCEPT ![r] = IF active THEN "active" ELSE "paused"]
  /\ UNCHANGED << tier, posts >>
  /\ UNCHANGED << runVars, consVars, trackVars, cycleVars, normVars, notifyVars, postVars >>

\* DELETE /keywords/:id
DeleteKeyword(r) ==
  /\ tracked[r] \in {"active", "paused"}
  /\ tracked' = [tracked EXCEPT ![r] = "deleted"]
  /\ UNCHANGED << tier, posts >>
  /\ UNCHANGED << runVars, consVars, trackVars, cycleVars, normVars, notifyVars, postVars >>

NextLimit ==
  \/ \E r \in 1..MaxPosts : PostCheckLimit(r)
  \/ \E r \in 1..MaxPosts : PostInsert(r)
  \/ \E r \in 1..MaxPosts, active \in BOOLEAN : PatchActive(r, active)
  \/ \E r \in 1..MaxPosts : DeleteKeyword(r)

SpecLimit == InitLimit /\ [][NextLimit]_vars

\* ------------------------------------------- sendChangeNotifications

\* Largest number of rows of paa_changes.
MaxChanges == 2

\* Largest number of invocations of sendChangeNotifications.
MaxCalls == 2

ChangeIds == 1..MaxChanges

\* The users owning the projects of the changed keywords.
Users == {1, 2}

\* The rows of user_settings: none for the user, or one with
\* email_notifications and email set or not, and webhook_url set or not.
SettingsRows ==
  {[exists |-> FALSE, email |-> FALSE, webhook |-> FALSE]}
    \cup [exists : {TRUE}, email : BOOLEAN, webhook : BOOLEAN]

InitNotify ==
  /\ RunIdle
  /\ ConsensusIdle
  /\ TrackerIdle
  /\ CycleIdle
  /\ NormIdle
  /\ LimitIdle
  /\ PostIdle
  /\ spc = "idle"
  /\ calls = 0
  /\ owner \in [ChangeIds -> Users]
  /\ notified = [c \in ChangeIds |-> FALSE]
  /\ userSettings \in [Users -> SettingsRows]
  /\ unnotifiedChanges = {}
  /\ changesByUser = <<>>
  /\ sui = 1
  /\ failed = [c \in ChangeIds |-> {}]
  /\ notificationsSent = 0
  /\ sresult = "none"

\* The rows of the invocation that belong to the Map entry the loop is at.
UserChanges == {c \in unnotifiedChanges : owner[c] = changesByUser[sui]}

\* A call of sendChangeNotifications.
Invoke ==
  /\ spc \in {"idle", "done"}
  /\ calls < MaxCalls
  /\ calls' = calls + 1
  /\ spc' = "select"
  /\ unnotifiedChanges' = {}
  /\ changesByUser' = <<>>
  /\ sui' = 1
  /\ notificationsSent' = 0
  /\ sresult' = "none"
  /\ UNCHANGED << owner, notified, userSettings, failed >>
  /\ UNCHANGED << runVars, consVars, trackVars, cycleVars, normVars, limitVars, postVars >>

\* The SELECT of the rows with notified = 0, ORDER BY p.user_id, and the
\* grouping by user; with no row the function returns 0.
SelectUnnotified ==
  /\ spc = "select"
  /\ \/ LET rows == {c \in ChangeIds : ~notified[c]}
        IN /\ unnotifiedChanges' = rows
           /\ changesByUser' =
                SelectSeq(<<1, 2>>, LAMBDA u : \E c \in rows : owner[c] = u)
           /\ spc' = IF rows = {} THEN "done" ELSE "settings"
           /\ sresult' = IF rows = {} THEN "returned" ELSE "none"
     \/ /\ spc' = "done"
        /\ sresult' = "threw"
        /\ UNCHANGED << unnotifiedChanges, changesByUser >>
  /\ UNCHANGED << calls, owner, notified, userSettings, sui, failed, notificationsSent >>
  /\ UNCHANGED << runVars, consVars, trackVars, cycleVars, normVars, limitVars, postVars >>

\* The head of the for loop: the SELECT of the user's settings; a user
\* without settings is passed over. After the last entry the function returns
\* notificationsSent.
LoadSettings ==
  /\ spc = "settings"
  /\ IF sui > Len(changesByUser)
     THEN /\ spc' = "done"
          /\ sresult' = "returned"
          /\ sui' = sui
     ELSE \/ /\ userSettings[changesByUser[sui]].exists
             /\ spc' = "email"
             /\ UNCHANGED << sui, sresult >>
          \/ /\ ~userSettings[changesByUser[sui]].exists
             /\ sui' = sui + 1
             /\ UNCHANGED << spc, sresult >>
          \/ /\ spc' = "done"
             /\ sresult' = "threw"
             /\ sui' = sui
  /\ UNCHANGED << calls, owner, notified, userSettings, unnotifiedChanges,
                  changesByUser, failed, notificationsSent >>
  /\ UNCHANGED << runVars, consVars, trackVars, cycleVars, normVars, limitVars, postVars >>

\* The delivery of a channel rejected for the rows of the user.
Rejected(channel) ==
  [c \in ChangeIds |-> IF c \in UserChanges THEN failed[c] \cup {channel} ELSE failed[c]]

\* if (email_notifications && email): sendEmailNotification resolves and
\* notificationsSent++, or it rejects and the catch logs.
SendEmail ==
  /\ spc = "email"
  /\ spc' = "webhook"
  /\ IF userSettings[changesByUser[sui]].email
     THEN \/ /\ notificationsSent' = notificationsSent + 1
             /\ failed' = failed
          \/ /\ failed' = Rejected("email")
             /\ notificationsSent' = notificationsSent
     ELSE UNCHANGED << failed, notificationsSent >>
  /\ UNCHANGED << calls, owner, notified, userSettings, unnotifiedChanges,
                  changesByUser, sui, sresult >>
  /\ UNCHANGED << runVars, consVars, trackVars, cycleVars, normVars, limitVars, postVars >>

\* if (webhook_url): sendWebhookNotification resolves, or it rejects and the
\* catch logs.
SendWebhook ==
  /\ spc = "webhook"
  /\ spc' = "mark"
  /\ IF userSettings[changesByUser[sui]].webhook
     THEN \/ failed' = failed
          \/ failed' = Rejected("webhook")
     ELSE failed' = failed
  /\ UNCHANGED << calls, owner, notified, userSettings, unnotifiedChanges,
                  changesByUser, sui, notificationsSent, sresult >>
  /\ UNCHANGED << runVars, consVars, trackVars, cycleVars, normVars, limitVars, postVars >>

\* UPDATE paa_changes SET notified = 1 WHERE id IN (the rows of the user); a
\* rejected update is not caught.
MarkNotified ==
  /\ spc = "mark"
  /\ \/ /\ notified' = [c \in ChangeIds |-> notified[c] \/ c \in UserChanges]
        /\ sui' = sui + 1
        /\ spc' = "settings"
        /\ sresult' = sresult
     \/ /\ spc' = "done"
        /\ sresult' = "threw"
        /\ UNCHANGED << notified, sui >>
  /\ UNCHANGED << calls, owner, userSettings, unnotifiedChanges, changesByUser,
                  failed, notificationsSent >>
  /\ UNCHANGED << runVars, consVars, trackVars, cycleVars, normVars, limitVars, postVars >>

NextNotify ==
  \/ Invoke
  \/ SelectUnnotified
  \/ LoadSettings
  \/ SendEmail
  \/ SendWebhook
  \/ MarkNotified

SpecNotify == InitNotify /\ [][NextNotify]_vars

\* ------------------- POST /keywords for a new keyword, and a tracking cycle

\* The value of last_checked_at the POST handler writes.
StampedByPost == -1

InitPost ==
  /\ RunIdle
  /\ ConsensusIdle
  /\ CycleIdle
  /\ NormIdle
  /\ LimitIdle
  /\ NotifyIdle
  /\ tpc = "idle"
  /\ tsub = 1
  /\ ti = 1
  /\ cycle = 0
  /\ currentPAA = <<>>
  /\ previousQuestions = <<>>
  /\ diff = NoDiff
  /\ questions = <<>>
  /\ changes = <<>>
  /\ olderChanges = 0
  /\ snapshots = <<>>
  /\ olderSnapshots = <<>>
  /\ lastChecked = 0
  /\ tresult = "none"
  /\ ppc = "insert"
  /\ initialQuestions = <<>>
  /\ pidx = 1
  /\ selected = FALSE

\* The handler leaves the tracker's locals and the other functions alone.
PostFrame ==
  /\ UNCHANGED << runVars, consVars, cycleVars, normVars, limitVars, notifyVars >>
  /\ UNCHANGED << tpc, tsub, ti, cycle, currentPAA, previousQuestions, diff, changes,
                  olderChanges, olderSnapshots, tresult, selected >>

\* INSERT INTO tracked_keywords (is_active 1, last_checked_at NULL) and
\* incrementApiCalls.
PostInsertKeyword ==
  /\ ppc = "insert"
  /\ ppc' = "fetch"
  /\ UNCHANGED << initialQuestions, pidx, questions, snapshots, lastChecked >>
  /\ PostFrame

\* const questions = await fetchPAAFromSerp(...)
PostFetch ==
  /\ ppc = "fetch"
  /\ initialQuestions' \in Serps
  /\ pidx' = 1
  /\ ppc' = "questions"
  /\ UNCHANGED << questions, snapshots, lastChecked >>
  /\ PostFrame

\* One pass of the loop storing the initial questions: INSERT INTO
\* paa_questions ... VALUES (..., 1, ?, 1)
PostInsertQuestion ==
  /\ ppc = "questions"
  /\ pidx <= Len(initialQuestions)
  /\ questions' = Append(questions,
                         [id |-> Len(questions) + 1,
                          question |-> initialQuestions[pidx],
                          question_hash |-> KeyOf[initialQuestions[pidx]],
                          times_seen |-> 1,
                          avg_position |-> Fraction(pidx - 1, 1),
                          is_current |-> TRUE])
  /\ pidx' = pidx + 1
  /\ UNCHANGED << ppc, initialQuestions, snapshots, lastChecked >>
  /\ PostFrame

\* After the loop: INSERT INTO paa_snapshots
PostSnapshot ==
  /\ ppc = "questions"
  /\ pidx > Len(initialQuestions)
  /\ snapshots' = Append(snapshots, initialQuestions)
  /\ ppc' = "stamp"
  /\ UNCHANGED << initialQuestions, pidx, questions, lastChecked >>
  /\ PostFrame

\* UPDATE tracked_keywords SET last_checked_at, and the response.
PostStamp ==
  /\ ppc = "stamp"
  /\ lastChecked' = StampedByPost
  /\ ppc' = "done"
  /\ UNCHANGED << initialQuestions, pidx, questions, snapshots >>
  /\ PostFrame

\* An awaited call after the keyword's INSERT rejects: the catch answers 500.
PostFails ==
  /\ ppc \in {"fetch", "questions", "stamp"}
  /\ ppc' = "500"
  /\ UNCHANGED << initialQuestions, pidx, questions, snapshots, lastChecked >>
  /\ PostFrame

\* The due selection of a tracking cycle returns the keyword: its row exists,
\* is_active is 1 and last_checked_at IS NULL.
SelectKeyword ==
  /\ ppc \notin {"none", "insert"}
  /\ lastChecked = 0
  /\ ~selected
  /\ cycle = 0
  /\ selected' = TRUE
  /\ UNCHANGED << ppc, initialQuestions, pidx >>
  /\ UNCHANGED << runVars, consVars, trackVars, cycleVars, normVars, limitVars,
                  notifyVars >>

\* The cycle calls checkKeyword for the selected keyword.
CheckSelected ==
  /\ selected
  /\ cycle = 0
  /\ FetchAndDiff

NextPost ==
  \/ PostInsertKeyword
  \/ PostFetch
  \/ PostInsertQuestion
  \/ PostSnapshot
  \/ PostStamp
  \/ PostFails
  \/ SelectKeyword
  \/ CheckSelected
  \/ StoreSnapshot
  \/ InsertQuestion
  \/ InsertAdded
  \/ ClearCurrent
  \/ InsertRemoved
  \/ UpdateSeen
  \/ InsertMoved
  \/ StampKeyword
  \/ WriteFails

SpecPost == InitPost /\ [][NextPost]_vars

\* ---------------------------------------------- properties of checkKeyword

\* The hashes of the active rows the pass read, and of the list it fetched.
PrevHashes == {previousQuestions[i].question_hash : i \in 1..Len(previousQuestions)}
CurHashes == {KeyOf[currentPAA[i]] : i \in 1..Len(currentPAA)}

\* The zero-based position of the first entry of a fetched list with hash h.
ObservedAt(serp, h) ==
  (CHOOSE i \in 1..Len(serp) :
     KeyOf[serp[i]] = h /\ \A j \in 1..(i - 1) : KeyOf[serp[j]] # h) - 1

\* The rows the latest pass inserted into paa_changes for a hash.
Logged(kind, h) ==
  {i \in 1..Len(changes) : changes[i].change_type = kind /\ changes[i].question_hash = h}

\* C15: added is exactly the current entries whose hash no previous active
\* record has, removed exactly the previous records whose hash no current
\* entry has; with equal hash sets both are empty, and with disjoint hash sets
\* every entry of either list is classified (N entries give N added, N
\* removed) and there is no position change.
C15_DiffClassification ==
  /\ diff.added = SelectSeq(CurrentEntries(currentPAA), LAMBDA q : q.hash \notin PrevHashes)
  /\ diff.removed =
       SelectSeq(PreviousEntries(previousQuestions), LAMBDA q : q.hash \notin CurHashes)
  /\ (PrevHashes = CurHashes) => (diff.added = <<>> /\ diff.removed = <<>>)
  /\ (PrevHashes \cap CurHashes = {}) =>
       /\ Len(diff.added) = Len(currentPAA)
       /\ Len(diff.removed) = Len(previousQuestions)
       /\ diff.positionChanges = <<>>

\* A pass that found two active records and fetched two entries with none of
\* their hashes: two added, two removed.
C15_DisjointOfSizeTwo ==
  /\ tpc = "done"
  /\ Len(previousQuestions) = 2
  /\ Len(currentPAA) = 2
  /\ PrevHashes \cap CurHashes = {}
  /\ Len(diff.added) = 2
  /\ Len(diff.removed) = 2

\* C16: a completed pass has persisted, for every retained key, exactly one
\* position-changed record when the key's index moved by 2 or more from the
\* list the previous pass observed to the current list, and none when it moved
\* by 0 or 1.
C16_PositionChangeRecords ==
  (tpc = "done" /\ olderSnapshots # <<>>) =>
    \A h \in CurHashes \cap PrevHashes :
      LET before == ObservedAt(olderSnapshots[Len(olderSnapshots)], h)
          now == ObservedAt(currentPAA, h)
      IN Cardinality(Logged("position_change", h)) = (IF Abs(before - now) >= 2 THEN 1 ELSE 0)

\* C17: a completed pass has created, for each added key, exactly one
\* QuestionRecord, with times-seen 1, avg-position the key's current position
\* and is-current set, and exactly one added ChangeRecord.
C17_AddedRecords ==
  (tpc = "done") =>
    \A h \in CurHashes \ PrevHashes :
      LET new == {i \in 1..Len(questions) :
                    questions[i].question_hash = h /\ questions[i].is_current}
      IN /\ Cardinality(new) = 1
         /\ \A i \in new : /\ questions[i].times_seen = 1
                            /\ questions[i].avg_position.num = ObservedAt(currentPAA, h)
                            /\ questions[i].avg_position.den = 1
         /\ Cardinality(Logged("added", h)) = 1

\* C18: a completed pass has cleared is-current on the records of each
\* removed key and has emitted exactly one removed ChangeRecord for the key.
C18_RemovedRecords ==
  (tpc = "done") =>
    \A h \in PrevHashes \ CurHashes :
      /\ \A i \in 1..Len(questions) :
           questions[i].question_hash = h => ~questions[i].is_current
      /\ Cardinality(Logged("removed", h)) = 1

\* The number of latest lists of hist that hold question q without a gap.
RECURSIVE Streak(_, _)
Streak(hist, q) ==
  IF hist = <<>> \/ \A i \in 1..Len(hist[Len(hist)]) : hist[Len(hist)][i] # q
  THEN 0
  ELSE 1 + Streak(SubSeq(hist, 1, Len(hist) - 1), q)

\* The sum of the zero-based positions of q in the latest n lists of hist.
RECURSIVE SumOfPositions(_, _, _)
SumOfPositions(hist, q, n) ==
  IF n = 0 THEN 0
  ELSE (CHOOSE i \in 1..Len(hist[Len(hist)]) : hist[Len(hist)][i] = q) - 1
         + SumOfPositions(SubSeq(hist, 1, Len(hist) - 1), q, n - 1)

\* C19: a completed pass has set, on the record of every retained key,
\* times-seen to old + 1 and avg-position to (oldAvg * oldTimesSeen +
\* newPosition) / newTimesSeen; the record of a question observed in the
\* latest n passes at p1..pn has times-seen n and avg-position * n = p1 + ... + pn.
C19_RunningMean ==
  (tpc = "done") =>
    /\ \A i \in 1..Len(previousQuestions) :
         LET prev == previousQuestions[i]
             row == questions[prev.id]
         IN prev.question_hash \in CurHashes =>
              /\ row.times_seen = prev.times_seen + 1
              /\ \E j \in 1..Len(currentPAA) :
                   /\ KeyOf[currentPAA[j]] = prev.question_hash
                   /\ row.avg_position.num * prev.avg_position.den * row.times_seen =
                        row.avg_position.den *
                          (prev.avg_position.num * prev.times_seen
                             + (j - 1) * prev.avg_position.den)
    /\ \A q \in TrackedQuestions :
         LET n == Streak(olderSnapshots \o snapshots, q)
         IN \A i \in 1..Len(questions) :
              (n >= 1 /\ questions[i].question = q /\ questions[i].is_current) =>
                /\ questions[i].times_seen = n
                /\ questions[i].avg_position.num * n =
                     questions[i].avg_position.den
                       * SumOfPositions(olderSnapshots \o snapshots, q, n)

C21_SecondPassChangesNothing ==
  (/\ tpc = "done"
   /\ olderSnapshots # <<>>
   /\ olderSnapshots[Len(olderSnapshots)] = currentPAA) =>
    /\ changes = <<>>
    /\ \A i \in 1..Len(previousQuestions) :
         LET prev == previousQuestions[i]
         IN /\ questions[prev.id].times_seen = prev.times_seen
            /\ questions[prev.id].avg_position = prev.avg_position

\* C22: in a cycle whose due keywords were selected, checkKeyword is called
\* for every due keyword in turn whichever of them fail, a failing keyword is
\* caught, and runTrackingCycle returns with checked = the number of due
\* keywords; it fails only when the selection of the due keywords fails.
C22_FailuresCaughtByDriver ==
  /\ passed = SubSeq(dueKeywords, 1, IF rpc = "check" THEN kwi ELSE kwi - 1)
  /\ caught \subseteq {passed[i] : i \in 1..Len(passed)}
  /\ (rpc = "check" /\ tresult = "threw") => dueKeywords[kwi] \notin caught
  /\ (cycleResult.status = "threw") => (passed = <<>> /\ dueKeywords = <<>>)
  /\ (rpc = "done" /\ cycleResult.status # "threw") =>
       /\ cycleResult.status = "returned"
       /\ passed = dueKeywords
       /\ cycleResult.checked = Len(dueKeywords)

\* A cycle that returned after its first due keyword failed and its second
\* was checked to the end.
C22_FirstFailedSecondChecked ==
  /\ rpc = "done"
  /\ cycleResult.status = "returned"
  /\ Len(dueKeywords) = 2
  /\ caught = {dueKeywords[1]}
  /\ tresult = "returned"
  /\ cycleResult.checked = 2

\* C23: a pass that failed has stored none of its mutations: no snapshot, no
\* ChangeRecord, no new QuestionRecord, and every record it read is as it was
\* read.
C23_FailedPassStoredNothing ==
  (tresult = "threw") =>
    /\ snapshots = <<>>
    /\ changes = <<>>
    /\ \A i \in 1..Len(previousQuestions) :
         questions[previousQuestions[i].id] = previousQuestions[i]
    /\ \A i \in 1..Len(questions) :
         questions[i].is_current =>
           \E j \in 1..Len(previousQuestions) : previousQuestions[j].id = questions[i].id

\* C24: the keyword never has two QuestionRecords with the same question
\* hash, whatever lists the passes fetched.
C24_OneRecordPerHash ==
  \A i, j \in 1..Len(questions) :
    questions[i].question_hash = questions[j].question_hash => i = j

\* C25: normalize applied to its own result returns that result, for every
\* string of letters inside and outside ASCII, marks, digits, whitespace,
\* quote variants and punctuation.
C25_NormalizeIdempotent == (npc = "twice") => (twice = once)

\* A string with a letter outside ASCII, a quote variant and a capital, which
\* normalize changes.
C25_NonAsciiQuoteCapital ==
  /\ npc = "twice"
  /\ ntext = <<"U+0130", "U+201E", "Q">>
  /\ once = <<"i", " ", "q">>
  /\ twice = once

\* The runs in another order.
Permuted(p) == [i \in 1..Len(runs) |-> runs[p[i]]]

\* C26: the merged result is the same list, with the same question text,
\* depth, parent, appearances and confidence for every key, whatever the
\* order of the runs handed to the merge.
C26_RunOrderIndependent ==
  (cresult = "returned") =>
    \A p \in Permutations(1..Len(runs)) : Merge(Permuted(p), strict, K) = results

\* C30: the appearances of every merged result is the number of runs in
\* which its key occurs.
C30_AppearancesCountRuns ==
  (cresult = "returned") =>
    \A i \in 1..Len(results) : results[i].appearances = RunsWith(results[i].norm)

\* Three runs merged, with a key that two of them hold.
C30_KeyInTwoOfThree ==
  /\ cresult = "returned"
  /\ Len(runs) = 3
  /\ \E i \in 1..Len(results) :
       /\ results[i].appearances = 2
       /\ RunsWith(results[i].norm) = 2

\* C27: the number of active tracked keywords of the user is never above the
\* keyword limit of the user's tier.
C27_ActiveWithinTierLimit == ActiveCount <= getTierLimits(tier)

\* C28: during a runConsensus call at most one Browser is open; every
\* invocation launches at most one Browser, its own, and the Browser of every
\* invocation before the latest is closed.
C28_OneBrowserAtATime ==
  /\ Cardinality({i \in 1..Len(sessions) : sessions[i] = "open"}) <= 1
  /\ \A i \in 1..(Len(sessions) - 1) : sessions[i] = "closed"
  /\ Len(sessions) \in {started - 1, started}
  /\ (cpc = "launched") => (Len(sessions) = started /\ sessions[started] = "open")

\* The third run with its Browser open, those of the first two closed.
C28_ThirdBrowserOpen ==
  /\ cpc = "launched"
  /\ sessions = <<"closed", "closed", "open">>
  /\ Len(runs) = 2

\* The largest number of entries getAccordionItems can return: the page shows
\* each text once.
MostControls == Cardinality(Questions)

\* The steps the loop can still take for a queue entry with n levels left
\* below it: the loop head, one pass per control and the end of the for loop,
\* and the same for every child an expansion can enqueue.
LevelWork[n \in 0..(MaxDepth + 1)] ==
  IF n = 0 THEN MostControls + 2
  ELSE MostControls + 2 + MostControls * LevelWork[n - 1]

\* The steps the loop can still take for a queue entry of depth d.
Work(d) == LevelWork[IF d >= depthParam THEN 0 ELSE depthParam - d]

RECURSIVE QueueWork(_)
QueueWork(q) == IF q = <<>> THEN 0 ELSE Work(Head(q).depth) + QueueWork(Tail(q))

\* The steps the for loop can still take for the entry it is processing.
ForWork ==
  (Len(acc) - accIdx + 1)
    * (1 + IF node.depth < depthParam THEN Work(node.depth + 1) ELSE 0) + 1

\* A bound on the number of steps the run can still take.
StepsLeft ==
  CASE pc = "done" -> 0
    [] pc = "catch" -> 1
    [] pc \in {"final", "notFound"} -> 2
    [] pc = "loop" -> 3 + QueueWork(queue)
    [] pc = "for" -> 3 + QueueWork(queue) + ForWork
    [] pc = "initialEvidence" -> 4 + Work(0)
    [] pc = "locate" -> 5 + Work(0)
    [] pc = "navigate" -> 6 + Work(0)
    [] OTHER -> 7 + Work(0)

\* C29: the BFS loop terminates, every step of the run lowering a bound on
\* the steps left, and when the loop is left for the statements after it the
\* queue is empty, or the items have reached maxNodes, or the elapsed time is
\* over maxRuntimeMs.
C29_LoopTerminates ==
  /\ [][StepsLeft' < StepsLeft]_vars
  /\ []((pc = "final") =>
          \/ queue = <<>>
          \/ Len(items) >= maxNodes
          \/ elapsed > MaxRuntime)

\* The loop left on the time budget, with entries still queued and fewer
\* items than maxNodes.
C29_StoppedByTime ==
  /\ pc = "final"
  /\ queue # <<>>
  /\ Len(items) < maxNodes
  /\ elapsed > MaxRuntime


\* ------------------------------------- properties of the items of one run

\* C31: no two items of a run have the same normalized text, so a question
\* recorded once is not recorded again at another depth or under another
\* parent.
C31_NormIsTheKey ==
  /\ \A i, j \in 1..Len(items) : items[i].norm = items[j].norm => i = j
  /\ seen = {items[i].norm : i \in 1..Len(items)}

\* A returned run whose page showed "Why?" and "why?!", both read again from
\* an entry of depth 1.
C31_SameNormShownTwice ==
  /\ result = "returned"
  /\ \E i, j \in 1..Len(dom) : dom[i] = 1 /\ dom[j] = 2
  /\ node.depth >= 1
  /\ accIdx > Len(acc)
  /\ Len(acc) >= 2

\* C32: the depths of the items are non-decreasing in list order, as are
\* those of the queue entries.
C32_DepthsNonDecreasing ==
  /\ \A i \in 1..(Len(items) - 1) : items[i].depth <= items[i + 1].depth
  /\ \A i \in 1..(Len(queue) - 1) : queue[i].depth <= queue[i + 1].depth

\* A returned run with items at depths 0, 1 and 2.
C32_ThreeLevels ==
  /\ result = "returned"
  /\ {items[i].depth : i \in 1..Len(items)} = {0, 1, 2}

\* C33: an item of depth 0 has no parent, and an item with a parent key
\* refers to an item of the same run whose depth is one less than its own.
C33_ParentOneLevelUp ==
  \A i \in 1..Len(items) :
    IF items[i].parent = NoParent THEN items[i].depth = 0
    ELSE /\ items[i].depth > 0
         /\ \E j \in 1..Len(items) :
              /\ items[i].parent = SomeParent(items[j].norm)
              /\ items[j].depth = items[i].depth - 1

\* ------------------------------------- more properties of checkKeyword

\* The hashes of the rows of paa_questions with is_current set.
ActiveHashes == {questions[i].question_hash : i \in {j \in 1..Len(questions) : questions[j].is_current}}

\* C34: after a completed pass the hashes of the active records are the
\* hashes of the list the pass observed.
C34_ActiveHashesAreCurrent ==
  tpc = "done" => ActiveHashes = CurHashes

\* A completed pass that added a hash, removed another and kept a third.
C34_AddedRemovedAndKept ==
  /\ tpc = "done"
  /\ diff.added # <<>>
  /\ diff.removed # <<>>
  /\ PrevHashes \cap CurHashes # {}

\* C35: a completed pass that observed the same questions in the same order
\* as the pass before it has persisted no ChangeRecord, whatever the earlier
\* passes observed.
C35_SameListNoChangeRecord ==
  (/\ tpc = "done"
   /\ cycle >= 2
   /\ olderSnapshots[Len(olderSnapshots)] = currentPAA) =>
    changes = <<>>

C40_HashEqualIffNormalizedEqual ==
  \A i, j \in 1..Len(currentPAA) :
    (HashOf[currentPAA[i]] = HashOf[currentPAA[j]])
      <=> (normalizeQuestion(TrackedTexts[currentPAA[i]])
             = normalizeQuestion(TrackedTexts[currentPAA[j]]))

\* ---------------------------- properties of sendChangeNotifications

\* C39: a row of paa_changes is marked notified only when no delivery of it
\* was rejected.
C39_NotifiedOnlyWhenDelivered ==
  \A c \in DOMAIN notified : notified[c] => failed[c] = {}

\* ------------------ properties of POST /keywords beside a tracking cycle

\* The entries of a list have pairwise different hashes.
DistinctHashes(list) ==
  \A i, j \in 1..Len(list) : KeyOf[list[i]] = KeyOf[list[j]] => i = j

\* C37: whatever the interleaving of the POST handler and the cycle's pass
\* for the new keyword, fetched lists without repeated hashes leave no two
\* active rows of paa_questions with the same hash.
C37_NoTwoActiveRowsPerHash ==
  (DistinctHashes(initialQuestions) /\ DistinctHashes(currentPAA)) =>
    \A i, j \in 1..Len(questions) :
      (/\ questions[i].is_current
       /\ questions[j].is_current
       /\ questions[i].question_hash = questions[j].question_hash) => i = j

\* -------------------------------- more properties of runTrackingCycle

\* C36: the changes total a cycle returns is the number of ChangeRecords the
\* cycle persisted; stated for a cycle with one due keyword, whose persisted
\* records are those of that keyword's pass.
C36_TotalIsPersistedCount ==
  (cycleResult.status = "returned" /\ Len(dueKeywords) = 1) =>
    cycleResult.changes = Len(changes)

====
